---- MODULE Spec2Model ----
(***************************************************************************)
(* The Kazakh -> Bashkir orthography corrector of                          *)
(* audio/kazakh_to_bashkir_corrector.py (class KazakhToBashkirCorrector).  *)
(*                                                                         *)
(* A Python str is modelled as a sequence of Unicode code points.  The     *)
(* character universe Chars is ASCII (tab .. carriage return, space .. ~), *)
(* the Cyrillic ranges U+0400..U+045F, U+048A..U+04BF, U+04D0..U+04FF and  *)
(* the combining breve U+0306; the str methods and the regular-expression  *)
(* classes below are those of CPython on that universe.                    *)
(***************************************************************************)
EXTENDS Integers, Sequences, FiniteSets, TLC

VARIABLES
    text,        \* the argument of the call under way
    aggressive,  \* its aggressive flag
    result,      \* the local variable result of correct_orthography / the value a stage call returns
    pc,          \* where the call stands
    texts,       \* batch_correct: the list argument
    out,         \* batch_correct: the list built so far
    idx,         \* the number of items the loop under way has consumed
    self,        \* the corrector object: its preserve sets and its tables
    files,       \* the word-list files of the data directory
    warnings,    \* the file names a warning was printed for
    calls,       \* the calls of correct_orthography of concurrent threads on one object
    args,        \* the arguments and the file list of the call of a function of the scripts
    segments,    \* the time-stamped segments of a transcription
    corrected_segments,   \* the list the segment loop of a script appends to
    disk,        \* the files written so far: a function from file names to texts
    printed      \* the messages printed so far

vars == <<text, aggressive, result, pc, texts, out, idx, self, files, warnings, calls,
         args, segments, corrected_segments, disk, printed>>

\* ---- characters: Unicode code points, as Python str holds them ----
ch_TAB == 9
ch_NL == 10
ch_SP == 32
ch_EXCL == 33
ch_APOS == 39
ch_LPAR == 40
ch_RPAR == 41
ch_COMMA == 44
ch_HYPHEN == 45
ch_DOT == 46
ch_DIGIT0 == 48
ch_DIGIT1 == 49
ch_COLON == 58
ch_SEMI == 59
ch_QUEST == 63
LA_E == 69
LA_Y == 89
ch_LBRK == 91
ch_RBRK == 93
ch_USCORE == 95
la_a == 97
la_e == 101
la_h == 104
la_s == 115
la_y == 121
ch_PIPE == 124
ch_BREVE == 774
C_II == 1030
C_A == 1040
C_B == 1041
C_D == 1044
C_E == 1045
C_ZH == 1046
C_I == 1048
C_K == 1050
C_M == 1052
C_N == 1053
C_O == 1054
C_S == 1057
C_T == 1058
C_U == 1059
C_H == 1061
C_YU == 1070
c_a == 1072
c_b == 1073
c_v == 1074
c_g == 1075
c_d == 1076
c_e == 1077
c_zh == 1078
c_z == 1079
c_i == 1080
c_j == 1081
c_k == 1082
c_l == 1083
c_m == 1084
c_n == 1085
c_o == 1086
c_p == 1087
c_r == 1088
c_s == 1089
c_t == 1090
c_u == 1091
c_f == 1092
c_h == 1093
c_c == 1094
c_ch == 1095
c_sh == 1096
c_sch == 1097
c_y == 1099
c_eh == 1101
c_yu == 1102
c_ii == 1110
C_GH == 1170
c_gh == 1171
c_dh == 1177
C_Q == 1178
c_q == 1179
C_BQ == 1184
c_bq == 1185
C_NG == 1186
c_ng == 1187
c_th == 1195
C_UE == 1198
c_ue == 1199
C_UU == 1200
c_uu == 1201
C_HH == 1210
c_hh == 1211
C_AE == 1240
c_ae == 1241
C_OE == 1256
c_oe == 1257

\* ---- bounds of the model ----
\* longest text drawn for a call of correct_orthography
MaxLen == 3
\* longest text drawn for a direct call of one stage
MaxStageLen == 4
\* longest list handed to batch_correct
MaxBatch == 3
\* longest word drawn over three letters for a direct call of one stage
MaxWordLen == 5
\* most lines of a word-list file
MaxLines == 1
\* most threads that call correct_orthography on one object at the same time
MaxThreads == 2
\* most segments of a transcription, most lines of a transcript file
MaxSegments == 3
\* most files of a directory handed to a batch mode
MaxFiles == 3

\* ---- exceptions: a raised exception is a marker in the value a stage returns ----
IndexError == -1
KeyError == -2
ValueError == -3

Raised(s) == \E i \in 1..Len(s) : s[i] < 0

\* ---- character classes (CPython: str.isspace, str.isalnum, re's \s \w \b) ----
CyrPaired == (1162..1215) \cup (1232..1279)

Chars == (9..13) \cup (32..126) \cup {ch_BREVE} \cup (1024..1119) \cup CyrPaired

ch_isspace(c) == c \in (9..13) \cup {ch_SP}

ch_isupper(c) ==
    \/ c \in 65..90
    \/ c \in 1024..1071
    \/ (c \in CyrPaired /\ c % 2 = 0)

ch_islower(c) ==
    \/ c \in 97..122
    \/ c \in 1072..1119
    \/ (c \in CyrPaired /\ c % 2 = 1)

ch_iscased(c) == ch_isupper(c) \/ ch_islower(c)

ch_isalnum(c) == ch_iscased(c) \/ c \in 48..57

\* \w of a str pattern: alphanumeric or underscore
ch_isword(c) == ch_isalnum(c) \/ c = ch_USCORE

ch_upper(c) ==
    IF ~ch_islower(c) THEN c
    ELSE IF c \in 97..122 THEN c - 32
    ELSE IF c \in 1072..1103 THEN c - 32
    ELSE IF c \in 1104..1119 THEN c - 80
    ELSE c - 1

ch_lower(c) ==
    IF ~ch_isupper(c) THEN c
    ELSE IF c \in 65..90 THEN c + 32
    ELSE IF c \in 1040..1071 THEN c + 32
    ELSE IF c \in 1024..1039 THEN c + 80
    ELSE c + 1

Min(S) == CHOOSE x \in S : \A y \in S : x <= y

Max(S) == CHOOSE x \in S : \A y \in S : x >= y

\* the concatenation of pieces[lo], ..., pieces[hi]
RECURSIVE Concat(_, _, _)
Concat(pieces, lo, hi) ==
    IF lo > hi THEN <<>>
    ELSE IF lo = hi THEN pieces[lo]
    ELSE LET mid == (lo + hi) \div 2
         IN  Concat(pieces, lo, mid) \o Concat(pieces, mid + 1, hi)

\* ---- str methods ----
str_upper(s) == [i \in 1..Len(s) |-> ch_upper(s[i])]

str_lower(s) == [i \in 1..Len(s) |-> ch_lower(s[i])]

\* str.title(): a cased character after a cased one is lowered, any other is title-cased
str_title(s) ==
    [i \in 1..Len(s) |->
        IF i > 1 /\ ch_iscased(s[i - 1]) THEN ch_lower(s[i]) ELSE ch_upper(s[i])]

\* str.istitle(): upper-case only after uncased, lower-case only after cased, at least one cased
str_istitle(s) ==
    /\ \E i \in 1..Len(s) : ch_iscased(s[i])
    /\ \A i \in 1..Len(s) :
        /\ ch_isupper(s[i]) => ~(i > 1 /\ ch_iscased(s[i - 1]))
        /\ ch_islower(s[i]) => (i > 1 /\ ch_iscased(s[i - 1]))

\* str.isupper(): no lower-case character and at least one cased character
str_isupper(s) ==
    /\ \E i \in 1..Len(s) : ch_iscased(s[i])
    /\ \A i \in 1..Len(s) : ~ch_islower(s[i])

\* s[i:] with Python's 0-based i
Slice(s, i) == SubSeq(s, i + 1, Len(s))

\* s[i] with Python's 0-based i: IndexError past the end
CharAt(s, i) == IF i < Len(s) THEN s[i + 1] ELSE IndexError

\* str.strip(): without the leading and the trailing whitespace
str_strip(s) ==
    LET kept == {i \in 1..Len(s) : ~ch_isspace(s[i])}
    IN  IF kept = {} THEN <<>>
        ELSE SubSeq(s, CHOOSE i \in kept : \A j \in kept : i <= j,
                       CHOOSE i \in kept : \A j \in kept : i >= j)

\* str.split(): the maximal runs of non-whitespace, in order
str_split(s) ==
    LET starts == {i \in 1..Len(s) :
                      ~ch_isspace(s[i]) /\ (i = 1 \/ ch_isspace(s[i - 1]))}
        ends == {i \in 1..Len(s) :
                      ~ch_isspace(s[i]) /\ (i = Len(s) \/ ch_isspace(s[i + 1]))}
        Nth(S, k) == CHOOSE i \in S : Cardinality({j \in S : j < i}) = k - 1
    IN  [k \in 1..Cardinality(starts) |-> SubSeq(s, Nth(starts, k), Nth(ends, k))]

\* ' '.join(words)
str_join(words) ==
    Concat([k \in 1..Len(words) |-> IF k = 1 THEN words[k] ELSE <<ch_SP>> \o words[k]],
           1, Len(words))

\* str.replace(old, new) for single characters
str_replace(s, old, new) == [i \in 1..Len(s) |-> IF s[i] = old THEN new ELSE s[i]]

\* self.word_dictionary, in insertion order: <<key, value>>
word_dictionary_items ==
    << <<<<c_b, c_uu, c_l>>, <<c_b, c_y, c_l>>>>,  \* бұл -> был
       <<<<C_B, c_uu, c_l>>, <<C_B, c_y, c_l>>>>,  \* Бұл -> Был
       <<<<c_o, c_s, c_y>>, <<c_b, c_y, c_l>>>>,  \* осы -> был
       <<<<C_O, c_s, c_y>>, <<C_B, c_y, c_l>>>>,  \* Осы -> Был
       <<<<c_m, c_e, c_n>>, <<c_m, c_i, c_n>>>>,  \* мен -> мин
       <<<<C_M, c_e, c_n>>, <<C_M, c_i, c_n>>>>,  \* Мен -> Мин
       <<<<c_m, c_e, c_n, c_ii, c_ng>>, <<c_m, c_i, c_n, c_i, c_ng>>>>,  \* менің -> миниң
       <<<<C_M, c_e, c_n, c_ii, c_ng>>, <<C_M, c_i, c_n, c_i, c_ng>>>>,  \* Менің -> Миниң
       <<<<c_s, c_e, c_n>>, <<c_hh, c_i, c_n>>>>,  \* сен -> һин
       <<<<C_S, c_e, c_n>>, <<C_HH, c_i, c_n>>>>,  \* Сен -> Һин
       <<<<c_s, c_e, c_n, c_ii, c_ng>>, <<c_hh, c_i, c_n, c_e, c_ng>>>>,  \* сенің -> һинең
       <<<<C_S, c_e, c_n, c_ii, c_ng>>, <<C_HH, c_i, c_n, c_e, c_ng>>>>,  \* Сенің -> Һинең
       <<<<c_o, c_l>>, <<c_u, c_l>>>>,  \* ол -> ул
       <<<<C_O, c_l>>, <<C_U, c_l>>>>,  \* Ол -> Ул
       <<<<c_o, c_n, c_y, c_ng>>, <<c_u, c_n, c_y, c_ng>>>>,  \* оның -> уның
       <<<<C_O, c_n, c_y, c_ng>>, <<C_U, c_n, c_y, c_ng>>>>,  \* Оның -> Уның
       <<<<c_b, c_ii, c_z>>, <<c_b, c_e, c_dh>>>>,  \* біз -> беҙ
       <<<<C_B, c_ii, c_z>>, <<C_B, c_e, c_dh>>>>,  \* Біз -> Беҙ
       <<<<c_b, c_ii, c_z, c_d, c_ii, c_ng>>, <<c_b, c_e, c_dh, c_dh, c_e, c_ng>>>>,  \* біздің -> беҙҙең
       <<<<C_B, c_ii, c_z, c_d, c_ii, c_ng>>, <<C_B, c_e, c_dh, c_dh, c_e, c_ng>>>>,  \* Біздің -> Беҙҙең
       <<<<c_s, c_ii, c_z>>, <<c_hh, c_e, c_dh>>>>,  \* сіз -> һеҙ
       <<<<C_S, c_ii, c_z>>, <<C_HH, c_e, c_dh>>>>,  \* Сіз -> Һеҙ
       <<<<c_s, c_ii, c_z, c_d, c_ii, c_ng>>, <<c_hh, c_e, c_dh, c_dh, c_e, c_ng>>>>,  \* сіздің -> һеҙҙең
       <<<<C_S, c_ii, c_z, c_d, c_ii, c_ng>>, <<C_HH, c_e, c_dh, c_dh, c_e, c_ng>>>>,  \* Сіздің -> Һеҙҙең
       <<<<c_o, c_l, c_a, c_r>>, <<c_u, c_l, c_a, c_r>>>>,  \* олар -> улар
       <<<<C_O, c_l, c_a, c_r>>, <<C_U, c_l, c_a, c_r>>>>,  \* Олар -> Улар
       <<<<c_o, c_l, c_a, c_r, c_d, c_y, c_ng>>, <<c_u, c_l, c_a, c_r, c_dh, c_y, c_ng>>>>,  \* олардың -> уларҙың
       <<<<C_O, c_l, c_a, c_r, c_d, c_y, c_ng>>, <<C_U, c_l, c_a, c_r, c_dh, c_y, c_ng>>>>,  \* Олардың -> Уларҙың
       <<<<c_n, c_e, c_m, c_a, c_u>>, <<c_n, c_i, c_m, c_a, c_u>>>>,  \* немау -> нимау
       <<<<C_N, c_e, c_m, c_a, c_u>>, <<C_N, c_i, c_m, c_a, c_u>>>>,  \* Немау -> Нимау
       <<<<c_n, c_e, c_m, c_e, c_n, c_e>>, <<c_n, c_i, c_m, c_ae>>>>,  \* немене -> нимә
       <<<<C_N, c_e, c_m, c_e, c_n, c_e>>, <<C_N, c_i, c_m, c_ae>>>>,  \* Немене -> Нимә
       <<<<c_q, c_a, c_l, c_a, c_j>>, <<c_bq, c_a, c_l, c_a, c_j>>>>,  \* қалай -> ҡалай
       <<<<C_Q, c_a, c_l, c_a, c_j>>, <<C_BQ, c_a, c_l, c_a, c_j>>>>,  \* Қалай -> Ҡалай
       <<<<c_q, c_a, c_j, c_d, c_a>>, <<c_bq, c_a, c_j, c_dh, c_a>>>>,  \* қайда -> ҡайҙа
       <<<<C_Q, c_a, c_j, c_d, c_a>>, <<C_BQ, c_a, c_j, c_dh, c_a>>>>,  \* Қайда -> Ҡайҙа
       <<<<c_q, c_a, c_sh, c_a, c_n>>, <<c_bq, c_a, c_s, c_a, c_n>>>>,  \* қашан -> ҡасан
       <<<<C_Q, c_a, c_sh, c_a, c_n>>, <<C_BQ, c_a, c_s, c_a, c_n>>>>,  \* Қашан -> Ҡасан
       <<<<c_n, c_e, c_g, c_e>>, <<c_n, c_i, c_ng, c_ae>>>>,  \* неге -> ниңә
       <<<<C_N, c_e, c_g, c_e>>, <<C_N, c_i, c_ng, c_ae>>>>,  \* Неге -> Ниңә
       <<<<c_n, c_e>>, <<c_n, c_ae, c_m, c_ae>>>>,  \* не -> нәмә
       <<<<C_N, c_e>>, <<C_N, c_ae, c_m, c_ae>>>>,  \* Не -> Нәмә
       <<<<c_b, c_o, c_l, c_d, c_y>>, <<c_b, c_u, c_l, c_d, c_y>>>>,  \* болды -> булды
       <<<<C_B, c_o, c_l, c_d, c_y>>, <<C_B, c_u, c_l, c_d, c_y>>>>,  \* Болды -> Булды
       <<<<c_b, c_o, c_l, c_a, c_d, c_y>>, <<c_b, c_u, c_l, c_a>>>>,  \* болады -> була
       <<<<C_B, c_o, c_l, c_a, c_d, c_y>>, <<C_B, c_u, c_l, c_a>>>>,  \* Болады -> Була
       <<<<c_e, c_t, c_e, c_d, c_ii>>, <<c_i, c_t, c_ae>>>>,  \* етеді -> итә
       <<<<C_E, c_t, c_e, c_d, c_ii>>, <<C_I, c_t, c_ae>>>>,  \* Етеді -> Итә
       <<<<c_k, c_e, c_r, c_e, c_k>>, <<c_k, c_ae, c_r, c_ae, c_k>>>>,  \* керек -> кәрәк
       <<<<C_K, c_e, c_r, c_e, c_k>>, <<C_K, c_ae, c_r, c_ae, c_k>>>>,  \* Керек -> Кәрәк
       <<<<c_b, c_a, c_r>>, <<c_b, c_a, c_r>>>>,  \* бар -> бар
       <<<<C_B, c_a, c_r>>, <<C_B, c_a, c_r>>>>,  \* Бар -> Бар
       <<<<c_zh, c_o, c_q>>, <<c_yu, c_bq>>>>,  \* жоқ -> юҡ
       <<<<C_ZH, c_o, c_q>>, <<C_YU, c_bq>>>>,  \* Жоқ -> Юҡ
       <<<<c_d, c_e, c_d, c_ii>>, <<c_ae, c_j, c_t, c_t, c_e>>>>,  \* деді -> әйтте
       <<<<C_D, c_e, c_d, c_ii>>, <<C_AE, c_j, c_t, c_t, c_e>>>>,  \* Деді -> Әйтте
       <<<<c_d, c_e, c_p>>, <<c_t, c_i, c_p>>>>,  \* деп -> тип
       <<<<C_D, c_e, c_p>>, <<C_T, c_i, c_p>>>>,  \* Деп -> Тип
       <<<<c_a, c_d, c_a, c_m>>, <<c_k, c_e, c_sh, c_e>>>>,  \* адам -> кеше
       <<<<C_A, c_d, c_a, c_m>>, <<C_K, c_e, c_sh, c_e>>>>,  \* Адам -> Кеше
       <<<<c_oe, c_m, c_ii, c_r>>, <<c_gh, c_ue, c_m, c_e, c_r>>>>,  \* өмір -> ғүмер
       <<<<C_OE, c_m, c_ii, c_r>>, <<C_GH, c_ue, c_m, c_e, c_r>>>>,  \* Өмір -> Ғүмер
       <<<<c_q, c_a, c_l, c_a>>, <<c_bq, c_a, c_l, c_a>>>>,  \* қала -> ҡала
       <<<<C_Q, c_a, c_l, c_a>>, <<C_BQ, c_a, c_l, c_a>>>>,  \* Қала -> Ҡала
       <<<<c_a, c_u, c_y, c_l>>, <<c_a, c_u, c_y, c_l>>>>,  \* ауыл -> ауыл
       <<<<C_A, c_u, c_y, c_l>>, <<C_A, c_u, c_y, c_l>>>>,  \* Ауыл -> Ауыл
       <<<<c_t, c_ii, c_l>>, <<c_t, c_e, c_l>>>>,  \* тіл -> тел
       <<<<C_T, c_ii, c_l>>, <<C_T, c_e, c_l>>>>,  \* Тіл -> Тел
       <<<<c_s, c_oe, c_z>>, <<c_hh, c_ue, c_dh>>>>,  \* сөз -> һүҙ
       <<<<C_S, c_oe, c_z>>, <<C_HH, c_ue, c_dh>>>>,  \* Сөз -> Һүҙ
       <<<<c_ue, c_j>>, <<c_oe, c_j>>>>,  \* үй -> өй
       <<<<C_UE, c_j>>, <<C_OE, c_j>>>>,  \* Үй -> Өй
       <<<<c_k, c_ii, c_t, c_a, c_p>>, <<c_k, c_i, c_t, c_a, c_p>>>>,  \* кітап -> китап
       <<<<C_K, c_ii, c_t, c_a, c_p>>, <<C_K, c_i, c_t, c_a, c_p>>>>,  \* Кітап -> Китап
       <<<<c_b, c_a, c_l, c_a>>, <<c_b, c_a, c_l, c_a>>>>,  \* бала -> бала
       <<<<C_B, c_a, c_l, c_a>>, <<C_B, c_a, c_l, c_a>>>>,  \* Бала -> Бала
       <<<<c_q, c_y, c_z>>, <<c_bq, c_y, c_dh>>>>,  \* қыз -> ҡыҙ
       <<<<C_Q, c_y, c_z>>, <<C_BQ, c_y, c_dh>>>> >>  \* Қыз -> Ҡыҙ

\* a map in which the image of one entry is the key of a later one: ұ -> ү, ү -> ө
char_map_items_chained ==
    << <<<<c_uu>>, <<c_ue>>>>,
       <<<<c_ue>>, <<c_oe>>>>,
       <<<<c_ii>>, <<c_e>>>> >>

\* self.char_map, in insertion order (the order .items() iterates in)
char_map_items ==
    << <<<<c_uu>>, <<c_u>>>>,  \* ұ -> у
       <<<<C_UU>>, <<C_U>>>>,  \* Ұ -> У
       <<<<c_ue>>, <<c_oe>>>>,  \* ү -> ө
       <<<<C_UE>>, <<C_OE>>>>,  \* Ү -> Ө
       <<<<c_ii>>, <<c_e>>>>,  \* і -> е
       <<<<C_II>>, <<C_E>>>>,  \* І -> Е
       <<<<c_ae>>, <<c_ae>>>>,  \* ә -> ә
       <<<<C_AE>>, <<C_AE>>>>,  \* Ә -> Ә
       <<<<c_oe>>, <<c_oe>>>>,  \* ө -> ө
       <<<<C_OE>>, <<C_OE>>>>,  \* Ө -> Ө
       <<<<c_gh>>, <<c_gh>>>>,  \* ғ -> ғ
       <<<<C_GH>>, <<C_GH>>>>,  \* Ғ -> Ғ
       <<<<c_ng>>, <<c_ng>>>>,  \* ң -> ң
       <<<<C_NG>>, <<C_NG>>>>,  \* Ң -> Ң
       <<<<c_hh>>, <<c_hh>>>>,  \* һ -> һ
       <<<<C_HH>>, <<C_HH>>>> >>  \* Һ -> Һ

\* self.grammar_patterns: <<ending, replacement>>; every pattern is the ending followed by \b
grammar_patterns ==
    << <<<<c_n, c_y, c_ng>>, <<c_n, c_y, c_ng>>>>,  \* ның -> ның
       <<<<c_n, c_ii, c_ng>>, <<c_n, c_e, c_ng>>>>,  \* нің -> нең
       <<<<c_d, c_y, c_ng>>, <<c_dh, c_y, c_ng>>>>,  \* дың -> ҙың
       <<<<c_d, c_ii, c_ng>>, <<c_dh, c_e, c_ng>>>>,  \* дің -> ҙең
       <<<<c_t, c_y, c_ng>>, <<c_t, c_y, c_ng>>>>,  \* тың -> тың
       <<<<c_t, c_ii, c_ng>>, <<c_t, c_e, c_ng>>>>,  \* тің -> тең
       <<<<c_d, c_y>>, <<c_dh, c_y>>>>,  \* ды -> ҙы
       <<<<c_d, c_ii>>, <<c_dh, c_e>>>>,  \* ді -> ҙе
       <<<<c_t, c_y>>, <<c_t, c_y>>>>,  \* ты -> ты
       <<<<c_t, c_ii>>, <<c_t, c_e>>>>,  \* ті -> те
       <<<<c_n, c_y>>, <<c_n, c_y>>>>,  \* ны -> ны
       <<<<c_n, c_ii>>, <<c_n, c_e>>>>,  \* ні -> не
       <<<<c_gh, c_a>>, <<c_gh, c_a>>>>,  \* ға -> ға
       <<<<c_g, c_e>>, <<c_g, c_ae>>>>,  \* ге -> гә
       <<<<c_q, c_a>>, <<c_bq, c_a>>>>,  \* қа -> ҡа
       <<<<c_k, c_e>>, <<c_k, c_ae>>>>,  \* ке -> кә
       <<<<c_d, c_a>>, <<c_dh, c_a>>>>,  \* да -> ҙа
       <<<<c_d, c_e>>, <<c_dh, c_ae>>>>,  \* де -> ҙә
       <<<<c_t, c_a>>, <<c_t, c_a>>>>,  \* та -> та
       <<<<c_t, c_e>>, <<c_t, c_ae>>>>,  \* те -> тә
       <<<<c_d, c_a, c_n>>, <<c_dh, c_a, c_n>>>>,  \* дан -> ҙан
       <<<<c_d, c_e, c_n>>, <<c_dh, c_ae, c_n>>>>,  \* ден -> ҙән
       <<<<c_t, c_a, c_n>>, <<c_t, c_a, c_n>>>>,  \* тан -> тан
       <<<<c_t, c_e, c_n>>, <<c_t, c_ae, c_n>>>>,  \* тен -> тән
       <<<<c_n, c_a, c_n>>, <<c_n, c_a, c_n>>>>,  \* нан -> нан
       <<<<c_n, c_e, c_n>>, <<c_n, c_ae, c_n>>>> >>  \* нен -> нән

\* self.proper_nouns, in insertion order
proper_nouns_items ==
    << <<<<c_b, c_a, c_sh, c_q, c_o, c_r, c_t>>, <<C_B, c_a, c_sh, c_bq, c_o, c_r, c_t>>>>,  \* башқорт -> Башҡорт
       <<<<c_b, c_a, c_sh, c_k, c_o, c_r, c_t>>, <<C_B, c_a, c_sh, c_bq, c_o, c_r, c_t>>>>,  \* башкорт -> Башҡорт
       <<<<c_t, c_a, c_t, c_a, c_r>>, <<C_T, c_a, c_t, c_a, c_r>>>>,  \* татар -> Татар
       <<<<c_q, c_a, c_z, c_a, c_q>>, <<C_BQ, c_a, c_z, c_a, c_bq>>>>,  \* қазақ -> Ҡазаҡ
       <<<<c_k, c_a, c_z, c_a, c_q>>, <<C_BQ, c_a, c_z, c_a, c_bq>>>>,  \* казақ -> Ҡазаҡ
       <<<<c_q, c_y, c_r, c_gh, c_y, c_z>>, <<C_BQ, c_y, c_r, c_gh, c_y, c_dh>>>>,  \* қырғыз -> Ҡырғыҙ
       <<<<c_q, c_a, c_z, c_a, c_q, c_s, c_t, c_a, c_n>>, <<C_BQ, c_a, c_z, c_a, c_bq, c_s, c_t, c_a, c_n>>>>,  \* қазақстан -> Ҡазаҡстан
       <<<<c_o, c_r, c_y, c_s>>, <<C_U, c_r, c_y, c_th>>>>,  \* орыс -> Урыҫ
       <<<<c_r, c_u, c_s>>, <<C_U, c_r, c_y, c_th>>>>,  \* рус -> Урыҫ
       <<<<c_oe, c_z, c_b, c_e, c_k>>, <<C_UE, c_z, c_b, c_ae, c_k>>>>,  \* өзбек -> Үзбәк
       <<<<c_t, c_oe, c_r, c_e, c_k>>, <<C_T, c_oe, c_r, c_oe, c_k>>>>,  \* төрек -> Төрөк
       <<<<c_m, c_o, c_n, c_gh, c_o, c_l>>, <<C_M, c_u, c_n, c_gh, c_a, c_l>>>> >>  \* монғол -> Мунғал

\* the built-in preserve set for the letter q-with-descender
default_preserve_q_words ==
    { <<c_q, c_a, c_sh, c_m, c_a, c_u>>,  \* қашмау
      <<C_Q, c_a, c_sh, c_m, c_a, c_u>>,  \* Қашмау
      <<c_q, c_o, c_j, c_r, c_u, c_k>>,  \* қойрук
      <<C_Q, c_o, c_j, c_r, c_u, c_k>>,  \* Қойрук
      <<c_q, c_o, c_j, c_y, c_l, c_gh, c_a, c_n>>,  \* қойылған
      <<C_Q, c_o, c_j, c_y, c_l, c_gh, c_a, c_n>>,  \* Қойылған
      <<c_q, c_o, c_j, c_y, c_l, c_h, c_a, c_n>>,  \* қойылхан
      <<C_Q, c_o, c_j, c_y, c_l, c_h, c_a, c_n>> }  \* Қойылхан

\* the built-in preserve set for the letter i
default_preserve_i_words ==
    { <<c_m, c_ii, c_n, c_e, c_n>>,  \* мінен
      <<C_M, c_ii, c_n, c_e, c_n>>,  \* Мінен
      <<c_b, c_ii, c_r, c_g, c_e>>,  \* бірге
      <<C_B, c_ii, c_r, c_g, c_e>>,  \* Бірге
      <<c_ae, c_l, c_ii, c_k, c_l, c_e>>,  \* әлікле
      <<C_AE, c_l, c_ii, c_k, c_l, c_e>>,  \* Әлікле
      <<c_ae, c_l, c_i, c_k, c_l, c_i>>,  \* әликли
      <<C_AE, c_l, c_i, c_k, c_l, c_i>> }  \* Әликли


\* ---- the tables as Python dicts ----
\* a dict literal: the keys of the items, each with the value of its last item
DictOf(items) ==
    [k \in {items[i][1] : i \in 1..Len(items)} |->
        items[Max({i \in 1..Len(items) : items[i][1] = k})][2]]

word_dictionary == DictOf(word_dictionary_items)

char_map == DictOf(char_map_items)

proper_nouns == DictOf(proper_nouns_items)

\* d[k]: KeyError for a key that is absent
Lookup(d, k) == IF k \in DOMAIN d THEN d[k] ELSE <<KeyError>>

\* ---- regular expressions (module re) ----
Whitespace == {c \in Chars : ch_isspace(c)}

NonSpace == Chars \ Whitespace

\* [,\.!?;:]
ClausePunct == {ch_COMMA, ch_DOT, ch_EXCL, ch_QUEST, ch_SEMI, ch_COLON}

\* [.!?]
Terminal == {ch_DOT, ch_EXCL, ch_QUEST}

\* \b with p characters of s before it: a word character on exactly one side
AtBoundary(s, p) ==
    (p >= 1 /\ ch_isword(s[p])) # (p < Len(s) /\ ch_isword(s[p + 1]))

\* An alternative of fixed width: optional \b, one character class per position,
\* optional \b; its replacement template holds literals and, for a one-character
\* group, the position in the match of the character the group captured.
Lit(c) == <<"lit", c>>

Grp(k) == <<"grp", k>>

Alt(before, classes, after, repl) ==
    [before |-> before, classes |-> classes, after |-> after, repl |-> repl]

Literal(word) == [k \in 1..Len(word) |-> {word[k]}]

Lits(word) == [k \in 1..Len(word) |-> Lit(word[k])]

MatchesAt(alt, s, i) ==
    LET n == Len(alt.classes) IN
    /\ i + n - 1 <= Len(s)
    /\ \A k \in 1..n : s[i + k - 1] \in alt.classes[k]
    /\ alt.before => AtBoundary(s, i - 1)
    /\ alt.after => AtBoundary(s, i + n - 1)

Expand(repl, s, i) ==
    [k \in 1..Len(repl) |->
        IF repl[k][1] = "grp" THEN s[i + repl[k][2] - 1] ELSE repl[k][2]]

\* One scan of re.sub / re.split over a string of n characters.  ends[i] is the
\* position after the match that starts at i, 0 when the pattern matches nothing
\* there.  The scan takes the leftmost match at or after p and goes on where it ends.
RECURSIVE MatchStarts(_, _, _)
MatchStarts(ends, n, p) ==
    LET candidates == {i \in p..n : ends[i] > 0}
    IN  IF candidates = {} THEN {}
        ELSE {Min(candidates)} \cup MatchStarts(ends, n, ends[Min(candidates)])

\* re.sub: every match taken is replaced by repl[its start], the rest is kept
Substitute(s, ends, repl) ==
    IF s = <<>> THEN <<>>
    ELSE LET starts == MatchStarts(ends, Len(s), 1)
             piece(i) == IF i \in starts THEN repl[i]
                         ELSE IF \E m \in starts : m < i /\ i < ends[m] THEN <<>>
                         ELSE <<s[i]>>
         IN  Concat([i \in 1..Len(s) |-> piece(i)], 1, Len(s))

\* the first alternative, in the pattern's order, that matches at i; 0 if none does
FirstMatch(alts, s, i) ==
    LET hits == {a \in 1..Len(alts) : MatchesAt(alts[a], s, i)}
    IN  IF hits = {} THEN 0 ELSE Min(hits)

\* re.sub(pattern, repl, s) for a pattern of fixed-width alternatives
re_sub(alts, s) ==
    Substitute(s,
        [i \in 1..Len(s) |->
            IF FirstMatch(alts, s, i) = 0 THEN 0
            ELSE i + Len(alts[FirstMatch(alts, s, i)].classes)],
        [i \in 1..Len(s) |-> Expand(alts[FirstMatch(alts, s, i)].repl, s, i)])

\* the first position at or after i that holds no character of the class (Len(s) + 1 if none)
RunEnd(s, i, class) ==
    Min({j \in i..Len(s) : s[j] \notin class} \cup {Len(s) + 1})

\* re.sub(r'\s+', ' ', s)
sub_spaces(s) ==
    Substitute(s,
        [i \in 1..Len(s) |-> IF ch_isspace(s[i]) THEN RunEnd(s, i, Whitespace) ELSE 0],
        [i \in 1..Len(s) |-> <<ch_SP>>])

\* open .*? close at i: the position after the first close that follows with no newline
\* between ('.' matches no newline); 0 if there is none
EnclosedEnd(s, i, open, close) ==
    LET closes == {j \in (i + 1)..Len(s) :
                      s[j] = close /\ \A k \in (i + 1)..(j - 1) : s[k] # ch_NL}
    IN  IF s[i] = open /\ closes # {} THEN Min(closes) + 1 ELSE 0

\* re.sub(r'\[.*?\]', '', s) and re.sub(r'\(.*?\)', '', s)
remove_enclosed(s, open, close) ==
    Substitute(s,
        [i \in 1..Len(s) |-> EnclosedEnd(s, i, open, close)],
        [i \in 1..Len(s) |-> <<>>])

\* unicodedata.normalize('NFC', s) on Chars: the breve composes with the letter before it
nfc_breve ==
    << <<c_i, c_j>>, <<C_I, 1049>>,      \* и й, И Й
       <<c_u, 1118>>, <<C_U, 1038>>,     \* у ў, У Ў
       <<c_a, 1233>>, <<C_A, 1232>>,     \* а ӑ, А Ӑ
       <<c_e, 1239>>, <<C_E, 1238>> >>   \* е ӗ, Е Ӗ

NFC(s) ==
    Substitute(s,
        [i \in 1..Len(s) |->
            IF i < Len(s) /\ s[i + 1] = ch_BREVE /\ s[i] \in DOMAIN DictOf(nfc_breve)
            THEN i + 2 ELSE 0],
        [i \in 1..Len(s) |-> <<DictOf(nfc_breve)[s[i]]>>])


\* ---- the stages of KazakhToBashkirCorrector ----

_normalize_text(t) ==
    LET t0 == NFC(t)
        t1 == sub_spaces(t0)
        \* re.sub(r'\s([,\.!?;:])', r'\1', text)
        t2 == re_sub(<<Alt(FALSE, <<Whitespace, ClausePunct>>, FALSE, <<Grp(2)>>)>>, t1)
        \* re.sub(r'([,\.!?;:])([^\s])', r'\1 \2', text)
        t3 == re_sub(<<Alt(FALSE, <<ClausePunct, NonSpace>>, FALSE,
                           <<Grp(1), Lit(ch_SP), Grp(2)>>)>>, t2)
        t4 == remove_enclosed(t3, ch_LBRK, ch_RBRK)
        t5 == remove_enclosed(t4, ch_LPAR, ch_RPAR)
    IN  str_strip(t5)

\* the loop conditions of _apply_dictionary: word[0] / word[-1] is punctuation
IsDictPunct(c) == ~ch_isalnum(c) /\ <<c>> \notin DOMAIN char_map

\* the number of characters the first while loop moves from word to prefix
RECURSIVE LeadingPunct(_)
LeadingPunct(word) ==
    IF word # <<>> /\ IsDictPunct(CharAt(word, 0)) THEN 1 + LeadingPunct(Slice(word, 1)) ELSE 0

\* the number of characters the second while loop moves from word to suffix
RECURSIVE TrailingPunct(_)
TrailingPunct(word) ==
    IF word # <<>> /\ IsDictPunct(word[Len(word)])
    THEN 1 + TrailingPunct(SubSeq(word, 1, Len(word) - 1)) ELSE 0

\* the replacement with the capitalization of the word it replaces
\* a replacement used as stored, whatever the case of the word
PreserveCaseStored(word, replacement) == replacement

PreserveCase(word, replacement) ==
    IF str_istitle(word) THEN str_title(replacement)
    ELSE IF str_isupper(word) THEN str_upper(replacement)
    ELSE replacement

\* one iteration of the loop of _apply_dictionary: prefix + word + suffix
DictionaryWord(original_word) ==
    LET p == LeadingPunct(original_word)
        prefix == SubSeq(original_word, 1, p)
        rest == Slice(original_word, p)
        q == TrailingPunct(rest)
        word == SubSeq(rest, 1, Len(rest) - q)
        suffix == SubSeq(rest, Len(rest) - q + 1, Len(rest))
        word_lower == str_lower(word)
    IN  prefix \o
        (IF word_lower \in DOMAIN word_dictionary
         THEN PreserveCase(word, Lookup(word_dictionary, word_lower))
         ELSE word)
        \o suffix

_apply_dictionary(t) ==
    LET words == str_split(t)
    IN  str_join([i \in 1..Len(words) |-> DictionaryWord(words[i])])

\* 'бвгджзйлмнпрстфхцчшщң'
Consonants ==
    {c_b, c_v, c_g, c_d, c_zh, c_z, c_j, c_l, c_m, c_n, c_p, c_r, c_s, c_t, c_f, c_h,
     c_c, c_ch, c_sh, c_sch, c_ng}

\* 'аәоөуүыиеэ'
Vowels == {c_a, c_ae, c_o, c_oe, c_u, c_ue, c_y, c_i, c_e, c_eh}

\* for kazakh_char, bashkir_char in self.char_map.items(): result = result.replace(...)
RECURSIVE ReplaceEach(_, _, _)
ReplaceEach(items, s, k) ==
    IF k > Len(items) THEN s
    ELSE LET replaced == str_replace(s, items[k][1][1], items[k][2][1])
         IN  IF Len(replaced) >= 0 THEN ReplaceEach(items, replaced, k + 1) ELSE s

\* (\b|[consonants])q -> \1 uvular
AfterBoundaryOrConsonant(q, uvular) ==
    << Alt(TRUE, <<{q}>>, FALSE, <<Lit(uvular)>>),
       Alt(FALSE, <<Consonants, {q}>>, FALSE, <<Grp(1), Lit(uvular)>>) >>

\* ([vowels])q([vowels]) -> \1 aspirate \2
BetweenVowels(q, aspirate) ==
    << Alt(FALSE, <<Vowels, {q}, Vowels>>, FALSE, <<Grp(1), Lit(aspirate), Grp(3)>>) >>

\* q\b -> uvular
WordFinal(q, uvular) == << Alt(FALSE, <<{q}>>, TRUE, <<Lit(uvular)>>) >>

\* a character stage that rewrites the stop letter only and leaves the map out
_apply_char_replacements_stop_letter_only(t) ==
    LET r1 == re_sub(AfterBoundaryOrConsonant(c_q, c_bq), t)
        r2 == re_sub(AfterBoundaryOrConsonant(C_Q, C_BQ), r1)
        r3 == re_sub(BetweenVowels(c_q, c_h), r2)
        r4 == re_sub(BetweenVowels(C_Q, C_H), r3)
        r5 == re_sub(WordFinal(c_q, c_bq), r4)
    IN  re_sub(WordFinal(C_Q, C_BQ), r5)

_apply_char_replacements(t) ==
    LET r0 == ReplaceEach(char_map_items, t, 1)
        r1 == re_sub(AfterBoundaryOrConsonant(c_q, c_bq), r0)
        r2 == re_sub(AfterBoundaryOrConsonant(C_Q, C_BQ), r1)
        r3 == re_sub(BetweenVowels(c_q, c_h), r2)
        r4 == re_sub(BetweenVowels(C_Q, C_H), r3)
        r5 == re_sub(WordFinal(c_q, c_bq), r4)
    IN  re_sub(WordFinal(C_Q, C_BQ), r5)

\* ending\b -> replacement
Ending(ending, replacement) ==
    << Alt(FALSE, Literal(ending), TRUE, Lits(replacement)) >>

\* for pattern, replacement in patterns: result = re.sub(pattern, replacement, result)
\* (each value is computed before the next pattern is applied to it)
RECURSIVE SubEach(_, _, _)
SubEach(patterns, s, k) ==
    IF k > Len(patterns) THEN s
    ELSE LET substituted == re_sub(patterns[k], s)
         IN  IF Len(substituted) >= 0 THEN SubEach(patterns, substituted, k + 1) ELSE s

\* ([vowels])ending\b -> \1 replacement
HarmonyRule(vowels, ending, replacement) ==
    << Alt(FALSE, <<vowels>> \o Literal(ending), TRUE, <<Grp(1)>> \o Lits(replacement)) >>

BackVowels == {c_a, c_o, c_u, c_y}

FrontVowels == {c_ae, c_oe, c_ue, c_i, c_e}

\* the front endings and their back variants, in the order of both pattern lists
harmony_endings ==
    << <<<<c_g, c_ae>>, <<c_g, c_a>>>>,                \* гә га
       <<<<c_k, c_ae>>, <<c_k, c_a>>>>,                \* кә ка
       <<<<c_dh, c_ae>>, <<c_dh, c_a>>>>,              \* ҙә ҙа
       <<<<c_t, c_ae>>, <<c_t, c_a>>>>,                \* тә та
       <<<<c_n, c_ae, c_n>>, <<c_n, c_a, c_n>>>>,      \* нән нан
       <<<<c_dh, c_ae, c_n>>, <<c_dh, c_a, c_n>>>>,    \* ҙән ҙан
       <<<<c_t, c_ae, c_n>>, <<c_t, c_a, c_n>>>> >>    \* тән тан

back_vowel_patterns ==
    [k \in 1..Len(harmony_endings) |->
        HarmonyRule(BackVowels, harmony_endings[k][1], harmony_endings[k][2])]

front_vowel_patterns ==
    [k \in 1..Len(harmony_endings) |->
        HarmonyRule(FrontVowels, harmony_endings[k][2], harmony_endings[k][1])]

\* a repair that applies the back-vowel patterns only
_fix_vowel_harmony_back_only(t) == SubEach(back_vowel_patterns, t, 1)

_fix_vowel_harmony(t) ==
    SubEach(front_vowel_patterns, SubEach(back_vowel_patterns, t, 1), 1)

_apply_grammar_corrections(t) ==
    LET patterns == [k \in 1..Len(grammar_patterns) |->
                        Ending(grammar_patterns[k][1], grammar_patterns[k][2])]
    IN  _fix_vowel_harmony(SubEach(patterns, t, 1))

\* \bword\b -> capitalized
WholeWord(word, capitalized) ==
    << Alt(TRUE, Literal(word), TRUE, Lits(capitalized)) >>

RECURSIVE CapitalizeEach(_, _, _)
CapitalizeEach(items, s, k) ==
    IF k > Len(items) THEN s
    ELSE LET word == items[k][1]
             capitalized == proper_nouns[word]
             r1 == re_sub(WholeWord(word, capitalized), s)
             r2 == re_sub(WholeWord(str_title(word), capitalized), r1)
         IN  IF Len(r2) >= 0 THEN CapitalizeEach(items, r2, k + 1) ELSE s

_capitalize_proper_nouns(t) == CapitalizeEach(proper_nouns_items, t, 1)

\* [.!?]+\s* at i: the position after the terminal run and the whitespace after it
\* [.!?]+ at i, without the whitespace after it
DelimiterEndTerminalOnly(s, i) ==
    IF s[i] \in Terminal THEN RunEnd(s, i, Terminal) ELSE 0

DelimiterEnd(s, i) ==
    IF s[i] \in Terminal THEN RunEnd(s, RunEnd(s, i, Terminal), Whitespace) ELSE 0

\* re.split(r'([.!?]+\s*)', text): body, delimiter, body, ..., delimiter, body
split_sentences(s) ==
    LET ends == [i \in 1..Len(s) |-> DelimiterEnd(s, i)]
        starts == MatchStarts(ends, Len(s), 1)
        m == Cardinality(starts)
        Nth(k) == CHOOSE i \in starts : Cardinality({j \in starts : j < i}) = k - 1
        BodyStart(k) == IF k = 1 THEN 1 ELSE ends[Nth(k - 1)]
    IN  [k \in 1..(2 * m + 1) |->
            IF k % 2 = 0 THEN SubSeq(s, Nth(k \div 2), ends[Nth(k \div 2)] - 1)
            ELSE SubSeq(s, BodyStart((k + 1) \div 2),
                        IF (k + 1) \div 2 > m THEN Len(s) ELSE Nth((k + 1) \div 2) - 1)]

\* sentence[0].upper() + sentence[1:]
\* sentence[0].upper() + sentence[1:] without the test of the empty sentence
CapitalizeFirstUnguarded(sentence) ==
    <<ch_upper(CharAt(sentence, 0))>> \o Slice(sentence, 1)

CapitalizeFirst(sentence) ==
    IF sentence # <<>>
    THEN <<ch_upper(CharAt(sentence, 0))>> \o Slice(sentence, 1)
    ELSE sentence

\* the loop over range(0, len(sentences), 2): sentence + punctuation of each pair
SentencePair(sentences, i) ==
    LET sentence == sentences[i + 1]
        punctuation == IF i + 1 < Len(sentences) THEN sentences[i + 2] ELSE <<>>
    IN  CapitalizeFirst(sentence) \o punctuation

_apply_sentence_capitalization(t) ==
    IF t = <<>> THEN t
    ELSE LET sentences == split_sentences(t)
             pairs == (Len(sentences) + 1) \div 2
         IN  Concat([k \in 1..pairs |-> SentencePair(sentences, 2 * (k - 1))], 1, pairs)

\* \s*([,.:;!?])\s* at i: the position of the punctuation character, 0 if no match
PunctAfterSpaces(s, i) ==
    LET p == RunEnd(s, i, Whitespace)
    IN  IF p <= Len(s) /\ s[p] \in ClausePunct THEN p ELSE 0

\* re.sub(r'\s*([,.:;!?])\s*', r'\1 ', s)
space_punctuation(s) ==
    Substitute(s,
        [i \in 1..Len(s) |->
            IF PunctAfterSpaces(s, i) = 0 THEN 0
            ELSE RunEnd(s, PunctAfterSpaces(s, i) + 1, Whitespace)],
        [i \in 1..Len(s) |-> <<s[PunctAfterSpaces(s, i)], ch_SP>>])

\* re.sub(r'([.!?]){2,}', r'\1', s): the group holds the last character of the run
sub_double_punctuation(s) ==
    Substitute(s,
        [i \in 1..Len(s) |->
            IF RunEnd(s, i, Terminal) - i >= 2 THEN RunEnd(s, i, Terminal) ELSE 0],
        [i \in 1..Len(s) |-> <<s[RunEnd(s, i, Terminal) - 1]>>])

_apply_final_formatting(t) ==
    LET r1 == space_punctuation(t)
        \* re.sub(r'([,.:;!?])([^\s])', r'\1 \2', result)
        r2 == re_sub(<<Alt(FALSE, <<ClausePunct, NonSpace>>, FALSE,
                           <<Grp(1), Lit(ch_SP), Grp(2)>>)>>, r1)
        r3 == sub_double_punctuation(r2)
    IN  str_strip(sub_spaces(r3))

\* run_test_cases, test case 2: "input"
fixture_input ==
    << C_M, c_e, c_n, c_ii, c_ng, ch_SP,  \* Менің
       c_a, c_t, c_y, c_m, ch_SP,  \* атым
       C_A, c_j, c_d, c_a, c_r, ch_DOT, ch_SP,  \* Айдар.
       C_M, c_e, c_n, ch_SP,  \* Мен
       c_q, c_a, c_z, c_a, c_q, c_p, c_y, c_n, ch_COMMA, ch_SP,  \* қазақпын,
       c_b, c_ii, c_r, c_a, c_q, ch_SP,  \* бірақ
       c_b, c_a, c_sh, c_q, c_o, c_r, c_t, ch_SP,  \* башқорт
       c_t, c_ii, c_l, c_ii, c_n, ch_SP,  \* тілін
       c_ue, c_j, c_r, c_e, c_n, c_e, c_m, c_ii, c_n, ch_DOT, ch_SP,  \* үйренемін.
       C_B, c_uu, c_l, ch_SP,  \* Бұл
       c_q, c_i, c_y, c_n, ch_SP,  \* қиын
       c_m, c_a, ch_QUEST, ch_SP,  \* ма?
       C_ZH, c_o, c_q, ch_COMMA, ch_SP,  \* Жоқ,
       c_q, c_y, c_z, c_y, c_q, c_t, c_y, ch_EXCL >>  \* қызықты!

\* run_test_cases, test case 2: "expected"
fixture_expected ==
    << C_M, c_i, c_n, c_i, c_ng, ch_SP,  \* Миниң
       c_a, c_t, c_y, c_m, ch_SP,  \* атым
       C_A, c_j, c_d, c_a, c_r, ch_DOT, ch_SP,  \* Айдар.
       C_M, c_i, c_n, ch_SP,  \* Мин
       c_bq, c_a, c_z, c_a, c_bq, c_m, c_y, c_n, ch_COMMA, ch_SP,  \* ҡазаҡмын,
       c_b, c_ae, c_r, c_a, c_bq, ch_SP,  \* бәраҡ
       C_B, c_a, c_sh, c_bq, c_o, c_r, c_t, ch_SP,  \* Башҡорт
       c_t, c_e, c_l, c_e, c_n, ch_SP,  \* телен
       c_oe, c_j, c_r, c_ae, c_n, c_ae, c_m, ch_DOT, ch_SP,  \* өйрәнәм.
       C_B, c_y, c_l, ch_SP,  \* Был
       c_bq, c_i, c_y, c_n, ch_SP,  \* ҡиын
       c_m, c_y, ch_QUEST, ch_SP,  \* мы?
       C_YU, c_bq, ch_COMMA, ch_SP,  \* Юҡ,
       c_bq, c_y, c_z, c_y, c_bq, c_t, c_y, ch_EXCL >>  \* ҡызыҡты!


\* correct_orthography as one call: the early return, then the seven steps in order
\* (a raised exception ends the call); the flag aggressive is read by no step
\* step k of correct_orthography applied to the result so far
Stage(k, s) ==
    CASE k = 0 -> _normalize_text(s)
      [] k = 1 -> _apply_dictionary(s)
      [] k = 2 -> _apply_char_replacements(s)
      [] k = 3 -> _apply_grammar_corrections(s)
      [] k = 4 -> _capitalize_proper_nouns(s)
      [] k = 5 -> _apply_sentence_capitalization(s)
      [] k = 6 -> _apply_final_formatting(s)

\* the steps from step k on: result = self._stage(result), ..., return result
RECURSIVE Steps(_, _)
Steps(s, k) ==
    IF k > 6 \/ Raised(s) THEN s ELSE Steps(Stage(k, s), k + 1)

correct_orthography(t, aggr) ==
    IF str_strip(t) = <<>> THEN t ELSE Steps(t, 0)

\* ---- the texts the calls are made on ----
StringsUpTo(alphabet, n) == UNION {[1..k -> alphabet] : k \in 0..n}

\* [music]
annotation_music == <<ch_LBRK, c_m, c_u, c_z, c_y, c_k, c_a, ch_RBRK>>

\* the fixture, [music], өзбек, and texts of punctuation, a breve and whitespace
FixedTexts ==
    { fixture_input, annotation_music, <<c_oe, c_z, c_b, c_e, c_k>>,
      <<ch_LPAR>>, <<ch_EXCL, ch_EXCL, ch_EXCL>>,
      <<c_i, ch_BREVE>>, <<ch_NL, ch_SP>>, <<ch_TAB, ch_NL, c_n>> }

\* a word with its first character upper-cased and the others lower-cased
Capitalized(w) ==
    [i \in 1..Len(w) |-> IF i = 1 THEN ch_upper(w[i]) ELSE ch_lower(w[i])]

\* a word before each key of proper_nouns, lower-case and title-case: "н key"
ProperNounTexts ==
    {<<c_n, ch_SP>> \o w : w \in UNION {{k, Capitalized(k)} : k \in DOMAIN proper_nouns}}

\* the texts of the calls of correct_orthography: every text of at most MaxLen
\* characters over space, ".", "[", "]", н and і, the fixed texts, the keys of the
\* tables, and the words of at most MaxLen letters over а, т, д and і
Inputs ==
    StringsUpTo({ch_SP, ch_DOT, ch_LBRK, ch_RBRK, c_n, c_ii}, MaxLen)
        \cup FixedTexts \cup ProperNounTexts
        \cup default_preserve_q_words \cup default_preserve_i_words
        \cup DOMAIN word_dictionary
        \cup StringsUpTo({c_a, c_t, c_d, c_ii}, MaxLen)

\* the lists handed to batch_correct, made of the texts: empty, blank, ні, [н], н.н
BatchInputs ==
    StringsUpTo({ <<>>, <<ch_SP, ch_SP>>, <<c_n, c_ii>>, <<ch_LBRK, c_n, ch_RBRK>>,
                  <<c_n, ch_DOT, c_n>> }, MaxBatch)

\* the lower-case keys of the word dictionary (the keys a lookup of word.lower() can hit)
LowerKeys == {k \in DOMAIN word_dictionary : str_lower(k) = k}

\* a word with every character upper-cased
AllUpper(w) == [i \in 1..Len(w) |-> ch_upper(w[i])]

\* the casings of a key: as it is, title-case, upper-case, only its last character
\* upper-cased, only its last character lower-cased
Casings(k) ==
    {k, Capitalized(k), AllUpper(k),
     [i \in 1..Len(k) |-> IF i = Len(k) THEN ch_upper(k[i]) ELSE ch_lower(k[i])],
     [i \in 1..Len(k) |-> IF i = Len(k) THEN ch_lower(k[i]) ELSE ch_upper(k[i])]}

\* the punctuation a token carries around its core: none, or ( before and ! after
Wrappers == { <<<<>>, <<>>>>, <<<<ch_LPAR>>, <<ch_EXCL>>>> }

\* the texts of the direct calls of one stage: the texts over space, ".", "!", а, А;
\* the dictionary keys in every casing, bare and wrapped in punctuation; the words
\* over the stop letter қ, a vowel and a consonant of the classes of
\* _apply_char_replacements; the words over a back vowel, a front vowel and the
\* consonant of the endings нән and нан; the words over т, і, е of the endings ті
\* and те; an annotation in brackets or in parentheses with a space and a word on
\* both sides
StageInputs ==
    StringsUpTo({ch_SP, ch_DOT, ch_EXCL, c_a, C_A}, MaxStageLen)
        \cup {w[1] \o c \o w[2] : w \in Wrappers, c \in UNION {Casings(k) : k \in LowerKeys}}
        \cup StringsUpTo({c_q, c_a, c_n}, MaxWordLen)
        \cup StringsUpTo({c_a, c_ae, c_n}, MaxWordLen)
        \cup StringsUpTo({c_t, c_ii, c_e}, MaxLen)
        \cup { <<c_n, ch_SP>> \o annotation_music \o <<ch_SP, c_n>>,
               <<c_n, ch_SP, ch_LPAR, c_n, ch_RPAR, ch_SP, c_n>> }

\* ---- the corrector object and the word-list files it is constructed from ----
\* preserve_q_words.txt, preserve_i_words.txt, preserve_e_words.txt
FileNames == {"preserve_q_words.txt", "preserve_i_words.txt", "preserve_e_words.txt"}

\* a file of the data directory: absent, or its lines (each the word қа or blank);
\* a read of it may fail with an I/O or decoding error once `after` lines have been
\* read (0: at open)
FileStates ==
    { [exists |-> FALSE, lines |-> <<>>, fails |-> FALSE, after |-> 0] }
        \cup { f \in [exists : {TRUE}, lines : StringsUpTo({ <<c_q, c_a, ch_NL>>, <<ch_SP, ch_NL>> }, MaxLines),
                      fails : BOOLEAN, after : 0..MaxLines] :
                   /\ f.after <= Len(f.lines)
                   /\ ~f.fails => f.after = 0 }

\* no file of the data directory exists
NoFiles ==
    [name \in FileNames |-> [exists |-> FALSE, lines |-> <<>>, fails |-> FALSE, after |-> 0]]

\* _load_word_list: the words added before the loop ended or an exception was caught,
\* and whether the except branch printed its warning
_load_word_list(file) ==
    LET read == IF file.fails THEN file.after ELSE Len(file.lines)
        word_list == {str_strip(file.lines[j]) : j \in 1..read} \ {<<>>}
    IN  IF file.exists
        THEN [word_list |-> word_list, warned |-> file.fails]
        ELSE [word_list |-> {}, warned |-> FALSE]

\* the attributes of an object before __init__ has assigned them
unassigned ==
    [preserve_q_words |-> {}, preserve_i_words |-> {}, preserve_e_words |-> {},
     word_dictionary |-> <<>>, char_map |-> <<>>, grammar_patterns |-> <<>>,
     proper_nouns |-> <<>>]

\* the object constructed when no word-list file exists
corrector ==
    [preserve_q_words |-> default_preserve_q_words,
     preserve_i_words |-> default_preserve_i_words,
     preserve_e_words |-> {},
     word_dictionary |-> word_dictionary, char_map |-> char_map,
     grammar_patterns |-> grammar_patterns, proper_nouns |-> proper_nouns]

\* ---- the calls ----
\* a call of correct_orthography(text, aggressive)
InitCall ==
    /\ text \in Inputs
    /\ aggressive \in BOOLEAN
    /\ result = <<>>
    /\ pc = "start"
    /\ texts = <<>>
    /\ out = <<>>
    /\ idx = 0
    /\ self = corrector
    /\ files = NoFiles
    /\ warnings = {}
    /\ args = <<>>
    /\ segments = <<>>
    /\ corrected_segments = <<>>
    /\ disk = <<>>
    /\ printed = <<>>
    /\ calls = <<>>

\* a call of batch_correct(texts, aggressive)
InitBatch ==
    /\ texts \in BatchInputs
    /\ aggressive \in BOOLEAN
    /\ text = <<>>
    /\ result = <<>>
    /\ pc = "batch"
    /\ out = <<>>
    /\ idx = 0
    /\ self = corrector
    /\ files = NoFiles
    /\ warnings = {}
    /\ args = <<>>
    /\ segments = <<>>
    /\ corrected_segments = <<>>
    /\ disk = <<>>
    /\ printed = <<>>
    /\ calls = <<>>

Init == InitCall \/ InitBatch

\* a step of the call: its value becomes result, or its exception ends the call
Step(from, value, to) ==
    /\ pc = from
    /\ IF Raised(value)
       THEN pc' = "raised" /\ UNCHANGED result
       ELSE pc' = to /\ result' = value
    /\ UNCHANGED <<text, aggressive, texts, out, idx, self, files, warnings, calls, args, segments,
                   corrected_segments, disk, printed>>

\* an early return of text.strip()
EarlyReturnStripped ==
    /\ pc = "start"
    /\ str_strip(text) = <<>>
    /\ pc' = "done"
    /\ result' = str_strip(text)
    /\ UNCHANGED <<text, aggressive, texts, out, idx, self, files, warnings, calls, args, segments,
                   corrected_segments, disk, printed>>

\* if not text.strip(): return text
EarlyReturn ==
    /\ pc = "start"
    /\ str_strip(text) = <<>>
    /\ pc' = "done"
    /\ result' = text
    /\ UNCHANGED <<text, aggressive, texts, out, idx, self, files, warnings, calls, args, segments,
                   corrected_segments, disk, printed>>

\* the first stage without the early return before it
NormalizeAlways == Step("start", _normalize_text(text), "normalized")

Normalize ==
    /\ str_strip(text) # <<>>
    /\ Step("start", _normalize_text(text), "normalized")

ApplyDictionary == Step("normalized", _apply_dictionary(result), "dictionary")

ApplyCharReplacements == Step("dictionary", _apply_char_replacements(result), "characters")

\* a grammar stage that runs for aggressive calls only
ApplyGrammarCorrectionsIfAggressive ==
    Step("characters",
         IF aggressive THEN _apply_grammar_corrections(result) ELSE result,
         "grammar")

ApplyGrammarCorrections == Step("characters", _apply_grammar_corrections(result), "grammar")

CapitalizeProperNouns == Step("grammar", _capitalize_proper_nouns(result), "proper_nouns")

ApplySentenceCapitalization ==
    Step("proper_nouns", _apply_sentence_capitalization(result), "sentences")

ApplyFinalFormatting == Step("sentences", _apply_final_formatting(result), "done")

\* a list built by putting each corrected text in front
BatchElementPrepend ==
    /\ pc = "batch"
    /\ idx < Len(texts)
    /\ LET corrected == correct_orthography(texts[idx + 1], aggressive)
       IN  IF Raised(corrected)
           THEN pc' = "raised" /\ UNCHANGED <<out, idx, args, segments,
                                              corrected_segments, disk, printed>>
           ELSE pc' = pc /\ out' = <<corrected>> \o out /\ idx' = idx + 1
    /\ UNCHANGED <<text, aggressive, result, texts, self, files, warnings, calls, args, segments,
                   corrected_segments, disk, printed>>

\* one element of the list comprehension of batch_correct
BatchElement ==
    /\ pc = "batch"
    /\ idx < Len(texts)
    /\ LET corrected == correct_orthography(texts[idx + 1], aggressive)
       IN  IF Raised(corrected)
           THEN pc' = "raised" /\ UNCHANGED <<out, idx, args, segments,
                                              corrected_segments, disk, printed>>
           ELSE pc' = pc /\ out' = Append(out, corrected) /\ idx' = idx + 1
    /\ UNCHANGED <<text, aggressive, result, texts, self, files, warnings, calls, args, segments,
                   corrected_segments, disk, printed>>

\* batch_correct returns the list
BatchReturn ==
    /\ pc = "batch"
    /\ idx = Len(texts)
    /\ pc' = "batch_done"
    /\ UNCHANGED <<text, aggressive, result, texts, out, idx, self, files, warnings, calls, args, segments,
                   corrected_segments, disk, printed>>

Next ==
    \/ EarlyReturn
    \/ Normalize
    \/ ApplyDictionary
    \/ ApplyCharReplacements
    \/ ApplyGrammarCorrections
    \/ CapitalizeProperNouns
    \/ ApplySentenceCapitalization
    \/ ApplyFinalFormatting
    \/ BatchElement
    \/ BatchReturn

Spec == Init /\ [][Next]_vars

\* ---- direct calls of one stage method on a text ----
InitStage ==
    /\ text \in StageInputs
    /\ aggressive = FALSE
    /\ result = <<>>
    /\ pc = "call"
    /\ texts = <<>>
    /\ out = <<>>
    /\ idx = 0
    /\ self = corrector
    /\ files = NoFiles
    /\ warnings = {}
    /\ args = <<>>
    /\ segments = <<>>
    /\ corrected_segments = <<>>
    /\ disk = <<>>
    /\ printed = <<>>
    /\ calls = <<>>

CallNormalizeText == Step("call", _normalize_text(text), "_normalize_text")

CallApplyDictionary == Step("call", _apply_dictionary(text), "_apply_dictionary")

CallApplyCharReplacements ==
    Step("call", _apply_char_replacements(text), "_apply_char_replacements")

CallApplyGrammarCorrections ==
    Step("call", _apply_grammar_corrections(text), "_apply_grammar_corrections")

CallFixVowelHarmony == Step("call", _fix_vowel_harmony(text), "_fix_vowel_harmony")

CallCapitalizeProperNouns ==
    Step("call", _capitalize_proper_nouns(text), "_capitalize_proper_nouns")

CallApplySentenceCapitalization ==
    Step("call", _apply_sentence_capitalization(text), "_apply_sentence_capitalization")

CallApplyFinalFormatting ==
    Step("call", _apply_final_formatting(text), "_apply_final_formatting")

NextStage ==
    \/ CallNormalizeText
    \/ CallApplyDictionary
    \/ CallApplyCharReplacements
    \/ CallApplyGrammarCorrections
    \/ CallFixVowelHarmony
    \/ CallCapitalizeProperNouns
    \/ CallApplySentenceCapitalization
    \/ CallApplyFinalFormatting

SpecStage == InitStage /\ [][NextStage]_vars

\* ---- the construction of a corrector: __init__ ----
InitNew ==
    /\ files \in [FileNames -> FileStates]
    /\ self = unassigned
    /\ warnings = {}
    /\ args = <<>>
    /\ segments = <<>>
    /\ corrected_segments = <<>>
    /\ disk = <<>>
    /\ printed = <<>>
    /\ pc = "new"
    /\ text = <<>>
    /\ aggressive = FALSE
    /\ result = <<>>
    /\ texts = <<>>
    /\ out = <<>>
    /\ idx = 0
    /\ calls = <<>>

\* one statement of __init__: the object and the warnings after it
Construct(from, object, warned, to) ==
    /\ pc = from
    /\ pc' = to
    /\ self' = object
    /\ warnings' = warnings \cup warned
    /\ UNCHANGED <<text, aggressive, result, texts, out, idx, files, calls, args, segments,
                   corrected_segments, disk, printed>>

\* self.preserve_қ_words = self._load_word_list('preserve_q_words.txt')
LoadPreserveQ ==
    LET loaded == _load_word_list(files["preserve_q_words.txt"])
    IN  Construct("new", [self EXCEPT !.preserve_q_words = loaded.word_list],
                  IF loaded.warned THEN {"preserve_q_words.txt"} ELSE {}, "loaded_q")

\* self.preserve_і_words = self._load_word_list('preserve_i_words.txt')
LoadPreserveI ==
    LET loaded == _load_word_list(files["preserve_i_words.txt"])
    IN  Construct("loaded_q", [self EXCEPT !.preserve_i_words = loaded.word_list],
                  IF loaded.warned THEN {"preserve_i_words.txt"} ELSE {}, "loaded_i")

\* self.preserve_е_words = self._load_word_list('preserve_e_words.txt')
LoadPreserveE ==
    LET loaded == _load_word_list(files["preserve_e_words.txt"])
    IN  Construct("loaded_i", [self EXCEPT !.preserve_e_words = loaded.word_list],
                  IF loaded.warned THEN {"preserve_e_words.txt"} ELSE {}, "loaded_e")

\* if not self.preserve_қ_words: the default set
DefaultPreserveQ ==
    Construct("loaded_e",
              IF self.preserve_q_words = {}
              THEN [self EXCEPT !.preserve_q_words = default_preserve_q_words]
              ELSE self,
              {}, "default_q")

\* if not self.preserve_і_words: the default set
DefaultPreserveI ==
    Construct("default_q",
              IF self.preserve_i_words = {}
              THEN [self EXCEPT !.preserve_i_words = default_preserve_i_words]
              ELSE self,
              {}, "default_i")

\* the tables: word_dictionary, char_map, grammar_patterns, proper_nouns
BuildTables ==
    Construct("default_i",
              [self EXCEPT !.word_dictionary = word_dictionary, !.char_map = char_map,
                           !.grammar_patterns = grammar_patterns,
                           !.proper_nouns = proper_nouns],
              {}, "constructed")

NextInit ==
    \/ LoadPreserveQ
    \/ LoadPreserveI
    \/ LoadPreserveE
    \/ DefaultPreserveQ
    \/ DefaultPreserveI
    \/ BuildTables

SpecInit == InitNew /\ [][NextInit]_vars

\* ---- concurrent calls of correct_orthography on one corrector ----
Threads == 1..MaxThreads

\* where a call stands before step 0, after each of the steps 0 to 6
PipelinePcs ==
    << "start", "normalized", "dictionary", "characters", "grammar", "proper_nouns",
       "sentences", "done" >>

\* each thread has its own text (ні, н.н or two spaces) and its own local variable
\* result
InitThreads ==
    /\ calls \in [Threads -> [text : { <<c_n, c_ii>>, <<c_n, ch_DOT, c_n>>, <<ch_SP, ch_SP>> },
                               pc : {"start"}, result : {<<>>}]]
    /\ self = corrector
    /\ files = NoFiles
    /\ warnings = {}
    /\ args = <<>>
    /\ segments = <<>>
    /\ corrected_segments = <<>>
    /\ disk = <<>>
    /\ printed = <<>>
    /\ pc = "threads"
    /\ text = <<>>
    /\ aggressive = FALSE
    /\ result = <<>>
    /\ texts = <<>>
    /\ out = <<>>
    /\ idx = 0

\* thread t: if not text.strip(): return text
ThreadEarlyReturn(t) ==
    /\ calls[t].pc = "start"
    /\ str_strip(calls[t].text) = <<>>
    /\ calls' = [calls EXCEPT ![t] = [@ EXCEPT !.pc = "done", !.result = calls[t].text]]
    /\ UNCHANGED <<text, aggressive, result, pc, texts, out, idx, self, files, warnings, args, segments,
                   corrected_segments, disk, printed>>

\* thread t takes its next step, with the intermediate result kept in a variable
\* that all threads share
ThreadStepShared(t) ==
    LET k == CHOOSE j \in 0..6 : PipelinePcs[j + 1] = calls[t].pc
        value == Stage(k, IF k = 0 THEN calls[t].text ELSE result)
    IN  /\ calls[t].pc \in {PipelinePcs[j + 1] : j \in 0..6}
        /\ k = 0 => str_strip(calls[t].text) # <<>>
        /\ calls' = [calls EXCEPT ![t] = [@ EXCEPT !.pc = PipelinePcs[k + 2],
                                                      !.result = value]]
        /\ result' = value
        /\ UNCHANGED <<text, aggressive, pc, texts, out, idx, self, files, warnings, args, segments,
                       corrected_segments, disk, printed>>

\* thread t takes its next step: result = self._stage(result) on its own local result
ThreadStep(t) ==
    LET k == CHOOSE j \in 0..6 : PipelinePcs[j + 1] = calls[t].pc
        value == Stage(k, IF k = 0 THEN calls[t].text ELSE calls[t].result)
    IN  /\ calls[t].pc \in {PipelinePcs[j + 1] : j \in 0..6}
        /\ k = 0 => str_strip(calls[t].text) # <<>>
        /\ calls' = [calls EXCEPT ![t] =
                        IF Raised(value) THEN [@ EXCEPT !.pc = "raised"]
                        ELSE [@ EXCEPT !.pc = PipelinePcs[k + 2], !.result = value]]
        /\ UNCHANGED <<text, aggressive, result, pc, texts, out, idx, self, files, warnings, args, segments,
                       corrected_segments, disk, printed>>

SomeThreadReturnsEarly == \E t \in Threads : ThreadEarlyReturn(t)

SomeThreadSteps == \E t \in Threads : ThreadStep(t)

NextThreads ==
    \/ SomeThreadReturnsEarly
    \/ SomeThreadSteps

SpecThreads == InitThreads /\ [][NextThreads]_vars

\* ---- the scripts around the corrector ----
\* transcribe_with_correction after Whisper has returned its segments (a segment has
\* an id, a start, an end and a text; the segments here are " н", "ні", "  " and
\* "н.н "), or clean_vad_transcript after it has read the lines of its input file
\* (the lines here are "00:00:01ні", "00:00:00 ", " н.н" and an empty line)
InitSegments ==
    /\ \/ /\ args \in [function : {"transcribe_with_correction"},
                       aggressive_correction : BOOLEAN]
          /\ segments \in StringsUpTo(
                 { [id |-> 0, start |-> 0, end |-> 2, text |-> <<ch_SP, c_n>>],
                   [id |-> 1, start |-> 2, end |-> 5, text |-> <<c_n, c_ii>>],
                   [id |-> 4, start |-> 7, end |-> 7, text |-> <<ch_SP, ch_SP>>],
                   [id |-> 7, start |-> 8, end |-> 9,
                    text |-> <<c_n, ch_DOT, c_n, ch_SP>>] }, MaxSegments)
          /\ pc = "transcribe_with_correction"
       \/ /\ args \in [function : {"clean_vad_transcript"},
                       lines : StringsUpTo(
                           { <<ch_DIGIT0, ch_DIGIT0, ch_COLON, ch_DIGIT0, ch_DIGIT0,
                               ch_COLON, ch_DIGIT0, ch_DIGIT1, c_n, c_ii, ch_NL>>,
                             <<ch_DIGIT0, ch_DIGIT0, ch_COLON, ch_DIGIT0, ch_DIGIT0,
                               ch_COLON, ch_DIGIT0, ch_DIGIT0, ch_SP, ch_NL>>,
                             <<ch_SP, c_n, ch_DOT, c_n, ch_NL>>,
                             <<ch_NL>> }, MaxSegments),
                       apply_correction : BOOLEAN, aggressive : BOOLEAN]
          /\ segments = <<>>
          /\ pc = "parse_lines"
    /\ corrected_segments = <<>>
    /\ idx = 0
    /\ disk = <<>>
    /\ printed = <<>>
    /\ self = corrector
    /\ files = NoFiles
    /\ warnings = {}
    /\ calls = <<>>
    /\ text = <<>>
    /\ aggressive = FALSE
    /\ result = <<>>
    /\ texts = <<>>
    /\ out = <<>>

\* transcribe_with_correction, the numbering of a corrected segment by its position
CorrectSegmentRenumbered ==
    /\ pc = "transcribe_with_correction"
    /\ idx < Len(segments)
    /\ LET seg == segments[idx + 1]
       IN  corrected_segments' = Append(corrected_segments,
               [id |-> idx, start |-> seg.start, end |-> seg.end,
                original_text |-> str_strip(seg.text),
                corrected_text |-> correct_orthography(str_strip(seg.text),
                                                       args.aggressive_correction)])
    /\ idx' = idx + 1
    /\ UNCHANGED <<text, aggressive, result, pc, texts, out, self, files, warnings, calls,
                   args, segments, disk, printed>>

\* transcribe_with_correction, the body of: for seg in segments
CorrectSegment ==
    /\ pc = "transcribe_with_correction"
    /\ idx < Len(segments)
    /\ LET seg == segments[idx + 1]
       IN  corrected_segments' = Append(corrected_segments,
               [id |-> seg.id, start |-> seg.start, end |-> seg.end,
                original_text |-> str_strip(seg.text),
                corrected_text |-> correct_orthography(str_strip(seg.text),
                                                       args.aggressive_correction)])
    /\ idx' = idx + 1
    /\ UNCHANGED <<text, aggressive, result, pc, texts, out, self, files, warnings, calls,
                   args, segments, disk, printed>>

\* re.match(r'^(\d{2}:\d{2}:\d{2})\s*(.*)$', line): <<timestamp, text>>, with the
\* empty sequence for the timestamp None
parse_timestamp_line(line) ==
    IF /\ Len(line) >= 8
       /\ \A i \in {1, 2, 4, 5, 7, 8} : line[i] \in 48..57
       /\ line[3] = ch_COLON
       /\ line[6] = ch_COLON
    THEN <<SubSeq(line, 1, 8), str_strip(SubSeq(line, 9, Len(line)))>>
    ELSE <<<<>>, str_strip(line)>>

\* clean_vad_transcript, the loop over the lines: a blank line and a line without
\* text give no segment
ParseLines ==
    /\ pc = "parse_lines"
    /\ LET parsed == [i \in 1..Len(args.lines) |->
                         parse_timestamp_line(str_strip(args.lines[i]))]
           kept == {i \in 1..Len(args.lines) : parsed[i][2] # <<>>}
           Nth(k) == CHOOSE i \in kept : Cardinality({j \in kept : j <= i}) = k
       IN  segments' = [k \in 1..Cardinality(kept) |->
                           [timestamp |-> parsed[Nth(k)][1], text |-> parsed[Nth(k)][2]]]
    /\ pc' = "clean_vad_transcript"
    /\ UNCHANGED <<text, aggressive, result, texts, out, idx, self, files, warnings, calls,
                   args, corrected_segments, disk, printed>>

\* clean_vad_transcript, the body of: for seg in segments (with correction applied),
\* or one element of the list comprehension (without)
CorrectVadSegment ==
    /\ pc = "clean_vad_transcript"
    /\ idx < Len(segments)
    /\ LET seg == segments[idx + 1]
       IN  corrected_segments' = Append(corrected_segments,
               IF args.apply_correction
               THEN [timestamp |-> seg.timestamp, original_text |-> seg.text,
                     corrected_text |-> correct_orthography(seg.text, args.aggressive)]
               ELSE [timestamp |-> seg.timestamp, text |-> seg.text])
    /\ idx' = idx + 1
    /\ UNCHANGED <<text, aggressive, result, pc, texts, out, self, files, warnings, calls,
                   args, segments, disk, printed>>

\* the loop over the segments ends
SegmentsProcessed ==
    /\ pc \in {"transcribe_with_correction", "clean_vad_transcript"}
    /\ idx = Len(segments)
    /\ pc' = "segments_done"
    /\ UNCHANGED <<text, aggressive, result, texts, out, idx, self, files, warnings, calls,
                   args, segments, corrected_segments, disk, printed>>

\* ---- the batch modes: a loop over the files of a directory ----
\* a batch mode at the start of its loop. The k-th file of the list has the stem k;
\* text is what Whisper returns for an audio file, or what a .txt file holds (ні, or
\* the lines "1|н" and "0", or for quick_correct the line "1|н|н"); fails names the step that raises an exception for the
\* file: the transcription, the correction of its transcription, process_file
InitDirectory ==
    /\ \/ /\ args \in [function : {"transcribe_directory", "main"},
                       aggressive : BOOLEAN,
                       files : StringsUpTo(
                           [text : { <<c_n, c_ii>>,
                                     <<ch_DIGIT1, ch_PIPE, c_n, ch_NL, ch_DIGIT0>> },
                            fails : {"none", "transcribe", "correct"}], MaxFiles)]
          /\ pc = "transcribe_directory"
       \/ /\ args \in [function : {"quick_correct"},
                       files : StringsUpTo(
                           [text : { <<c_n, c_ii>>,
                                     <<ch_DIGIT1, ch_PIPE, c_n, ch_NL, ch_DIGIT0>>,
                                     <<ch_DIGIT1, ch_PIPE, c_n, ch_PIPE, c_n>> },
                            fails : {"none", "process_file"}], MaxFiles) \ {<<>>}]
          /\ pc = "quick_correct"
    /\ idx = 0
    /\ disk = <<>>
    /\ printed = <<>>
    /\ segments = <<>>
    /\ corrected_segments = <<>>
    /\ self = corrector
    /\ files = NoFiles
    /\ warnings = {}
    /\ calls = <<>>
    /\ text = <<>>
    /\ aggressive = FALSE
    /\ result = <<>>
    /\ texts = <<>>
    /\ out = <<>>

\* the body of the loop of transcribe_directory without its try and except
TranscribeFileUncaught ==
    /\ pc = "transcribe_directory"
    /\ idx < Len(args.files)
    /\ idx' = idx + 1
    /\ IF args.files[idx + 1].fails = "transcribe"
       THEN /\ pc' = "raised"
            /\ UNCHANGED <<disk, printed>>
       ELSE /\ disk' = (<<idx + 1, "_transcribed.txt">> :> args.files[idx + 1].text) @@ disk
            /\ printed' = Append(printed,
                    [kind |-> "saved", file |-> <<idx + 1, "_transcribed.txt">>])
            /\ pc' = pc
    /\ UNCHANGED <<text, aggressive, result, texts, out, self, files, warnings, calls,
                   args, segments, corrected_segments>>

\* WhisperTranscriber.transcribe_directory, the body of: for audio_file in audio_files
TranscribeFile ==
    /\ pc = "transcribe_directory"
    /\ idx < Len(args.files)
    /\ idx' = idx + 1
    /\ IF args.files[idx + 1].fails = "transcribe"
       THEN /\ printed' = Append(printed, [kind |-> "error", file |-> <<idx + 1, ".mp3">>])
            /\ UNCHANGED disk
       ELSE /\ disk' = (<<idx + 1, "_transcribed.txt">> :> args.files[idx + 1].text) @@ disk
            /\ printed' = Append(printed,
                    [kind |-> "saved", file |-> <<idx + 1, "_transcribed.txt">>])
    /\ UNCHANGED <<text, aggressive, result, pc, texts, out, self, files, warnings, calls,
                   args, segments, corrected_segments>>

\* main, the body of: for txt_file in output_dir.glob("*_transcribed.txt"); the files
\* of the glob are the transcriptions on the disk, taken by their stems
CorrectTranscription ==
    /\ pc = "main"
    /\ LET globbed == {k \in 1..Len(args.files) : <<k, "_transcribed.txt">> \in DOMAIN disk}
           stem == CHOOSE k \in globbed : Cardinality({j \in globbed : j < k}) = idx
       IN  /\ idx < Cardinality(globbed)
           /\ IF args.files[stem].fails = "correct"
              THEN /\ printed' = Append(printed,
                           [kind |-> "error", file |-> <<stem, "_transcribed.txt">>])
                   /\ UNCHANGED disk
              ELSE /\ disk' = (<<stem, "_corrected.txt">> :>
                                  correct_orthography(disk[<<stem, "_transcribed.txt">>],
                                                      args.aggressive)) @@ disk
                   /\ printed' = Append(printed,
                           [kind |-> "saved", file |-> <<stem, "_corrected.txt">>])
    /\ idx' = idx + 1
    /\ UNCHANGED <<text, aggressive, result, pc, texts, out, self, files, warnings, calls,
                   args, segments, corrected_segments>>

\* quick_correct.clean_transcription_artifacts: of every line the text after the
\* first "|" (str.split('|', 1)[-1]), stripped; blank lines and lines of digits,
\* whitespace and , . - ( ) [ ] : only are dropped; the lines left are joined by "\n"
clean_transcription_artifacts(t) ==
    LET starts == {i \in 1..Len(t) : t[i] \notin 10..13 /\ (i = 1 \/ t[i - 1] \in 10..13)}
        ends == {i \in 1..Len(t) : t[i] \notin 10..13 /\ (i = Len(t) \/ t[i + 1] \in 10..13)}
        Nth(S, k) == CHOOSE i \in S : Cardinality({j \in S : j < i}) = k - 1
        Cleaned(line) ==
            LET bars == {i \in 1..Len(line) : line[i] = ch_PIPE}
                after == IF bars = {} THEN line
                         ELSE str_strip(SubSeq(line, Min(bars) + 1, Len(line)))
            IN  IF \A i \in 1..Len(after) :
                       after[i] \in (48..57) \cup Whitespace
                           \cup {ch_COMMA, ch_DOT, ch_HYPHEN, ch_LPAR, ch_RPAR, ch_LBRK,
                                 ch_RBRK, ch_COLON}
                THEN <<>>
                ELSE <<ch_NL>> \o after
        joined == Concat([k \in 1..Cardinality(starts) |->
                             Cleaned(str_strip(SubSeq(t, Nth(starts, k), Nth(ends, k))))],
                         1, Cardinality(starts))
    IN  SubSeq(joined, 2, Len(joined))

\* quick_correct.process_file: the text written to <stem>_CORRECTED_ONELINE.txt
process_file(original_text) ==
    str_strip(sub_spaces(correct_orthography(clean_transcription_artifacts(original_text),
                                             FALSE)))

\* quick_correct.main, the body of: for txt_file in sorted(txt_files)
ProcessFile ==
    /\ pc = "quick_correct"
    /\ idx < Len(args.files)
    /\ idx' = idx + 1
    /\ IF args.files[idx + 1].fails = "process_file"
       THEN /\ printed' = Append(printed, [kind |-> "error", file |-> <<idx + 1, ".txt">>])
            /\ UNCHANGED disk
       ELSE /\ disk' = (<<idx + 1, "_CORRECTED_ONELINE.txt">> :>
                           process_file(args.files[idx + 1].text)) @@ disk
            /\ printed' = Append(printed,
                    [kind |-> "saved", file |-> <<idx + 1, "_CORRECTED_ONELINE.txt">>])
    /\ UNCHANGED <<text, aggressive, result, pc, texts, out, self, files, warnings, calls,
                   args, segments, corrected_segments>>

\* the loop over the files ends: transcribe_directory returns, to main (which goes on
\* to correct the transcriptions) or to its caller; the other loops end the run
DirectoryProcessed ==
    /\ \/ /\ pc = "transcribe_directory"
          /\ idx = Len(args.files)
          /\ pc' = IF args.function = "main" THEN "main" ELSE "directory_done"
          /\ idx' = 0
       \/ /\ pc = "main"
          /\ idx = Cardinality({k \in 1..Len(args.files) :
                                   <<k, "_transcribed.txt">> \in DOMAIN disk})
          /\ pc' = "directory_done"
          /\ idx' = idx
       \/ /\ pc = "quick_correct"
          /\ idx = Len(args.files)
          /\ pc' = "directory_done"
          /\ idx' = idx
    /\ UNCHANGED <<text, aggressive, result, texts, out, self, files, warnings, calls,
                   args, segments, corrected_segments, disk, printed>>


\* ---- process_audio_file ----
\* a call of process_audio_file. A file is named by a stem and a suffix, as on the
\* disk above: the audio file has the stem 1; output_file is <<>> for None, or the
\* path the caller names, out.txt or out_transcribed.txt (stem 2); text is what
\* Whisper returns; fails tells whether transcribe_audio raises an exception
InitAudio ==
    /\ args \in [function : {"process_audio_file"},
                 whisper_available : BOOLEAN,
                 output_file : { <<>>, <<2, ".txt">>, <<2, "_transcribed.txt">> },
                 text : { <<c_n, c_ii>>, <<c_n, ch_DOT, c_n>> },
                 fails : {"none", "transcribe"}]
    /\ pc = "process_audio_file"
    /\ idx = 0
    /\ disk = <<>>
    /\ printed = <<>>
    /\ segments = <<>>
    /\ corrected_segments = <<>>
    /\ self = corrector
    /\ files = NoFiles
    /\ warnings = {}
    /\ calls = <<>>
    /\ text = <<>>
    /\ aggressive = FALSE
    /\ result = <<>>
    /\ texts = <<>>
    /\ out = <<>>

\* Path(str(output_file).replace('_transcribed.txt', '_corrected.txt')): the suffix
\* is replaced where it is _transcribed.txt, and a path without it is left as it is
corrected_file(output_file) ==
    <<output_file[1],
      IF output_file[2] = "_transcribed.txt" THEN "_corrected.txt" ELSE output_file[2]>>

\* process_audio_file: the return when Whisper is missing; the except branch; the
\* two files written one after the other (a later write to the same path replaces
\* the content of the earlier one)
ProcessAudioFile ==
    /\ pc = "process_audio_file"
    /\ pc' = "audio_done"
    /\ IF ~args.whisper_available \/ args.fails = "transcribe"
       THEN /\ printed' = Append(printed, [kind |-> "error", file |-> <<1, ".mp3">>])
            /\ UNCHANGED <<disk, text, result>>
       ELSE LET output_file == IF args.output_file = <<>>
                               THEN <<1, "_transcribed.txt">>
                               ELSE args.output_file
            IN  /\ text' = args.text
                /\ result' = correct_orthography(args.text, FALSE)
                /\ disk' = (corrected_file(output_file) :> result')
                               @@ (output_file :> args.text) @@ disk
                /\ printed' = printed \o
                       << [kind |-> "saved", file |-> output_file],
                          [kind |-> "saved", file |-> corrected_file(output_file)] >>
    /\ UNCHANGED <<aggressive, texts, out, idx, self, files, warnings, calls,
                   args, segments, corrected_segments>>
\* ---- the transliteration tables of TurkicTransliterator (latin_to_cyrillic_turkic.py) ----
\* Each item is <<key, value>> as the file holds them: the keys and the non-ASCII
\* values are the character sequences of the file, code point by code point.
bashkir_map ==
    << <<<<8220, 244>>, <<8730, 8734>>>>,   \* -> "U+221AU+221E"
       <<<<8220, 242>>, <<8730, 234>>>>,   \* -> "U+221AU+00EA"
       <<<<8220, 176>>, <<113>>>>,   \* -> "q"
       <<<<8220, 8224>>, <<81>>>>,   \* -> "Q"
       <<<<8220, 163>>, <<8776, 227>>>>,   \* -> "U+2248U+00E3"
       <<<<8220, 162>>, <<8776, 228>>>>,   \* -> "U+2248U+00E4"
       <<<<8220, 180>>, <<8776, 245>>>>,   \* -> "U+2248U+00F5"
       <<<<8220, 8482>>, <<8776, 246>>>>,   \* -> "U+2248U+00F6"
       <<<<8220, 216>>, <<8730, 186>>>>,   \* -> "U+221AU+00BA"
       <<<<8220, 198>>, <<8730, 250>>>>,   \* -> "U+221AU+00FA"
       <<<<8220, 170>>, <<104>>>>,   \* -> "h"
       <<<<8220, 8747>>, <<72>>>>,   \* -> "H"
       <<<<8221, 244>>, <<8730, 167>>>>,   \* -> "U+221AU+00A7"
       <<<<8221, 242>>, <<8730, 209>>>>,   \* -> "U+221AU+00D1"
       <<<<8221, 169>>, <<8730, 8706>>>>,   \* -> "U+221AU+2202"
       <<<<8221, 174>>, <<8730, 241>>>>,   \* -> "U+221AU+00F1"
       <<<<8220, 236>>, <<402, 252>>>>,   \* -> "U+0192U+00FC"
       <<<<8220, 237>>, <<402, 251>>>> >>

kazakh_map ==
    << <<<<8221, 244>>, <<8730, 167>>>>,   \* -> "U+221AU+00A7"
       <<<<8221, 242>>, <<8730, 209>>>>,   \* -> "U+221AU+00D1"
       <<<<8220, 236>>, <<402, 252>>>>,   \* -> "U+0192U+00FC"
       <<<<8220, 237>>, <<402, 251>>>>,   \* -> "U+0192U+00FB"
       <<<<8220, 245>>, <<113>>>>,   \* -> "q"
       <<<<8220, 246>>, <<81>>>>,   \* -> "Q"
       <<<<8220, 163>>, <<8776, 227>>>>,   \* -> "U+2248U+00E3"
       <<<<8220, 162>>, <<8776, 228>>>>,   \* -> "U+2248U+00E4"
       <<<<8221, 169>>, <<8730, 8706>>>>,   \* -> "U+221AU+2202"
       <<<<8221, 174>>, <<8730, 241>>>>,   \* -> "U+221AU+00F1"
       <<<<8220, 177>>, <<117, 195, 225>>>>,   \* -> "uU+00C3U+00E1"
       <<<<8220, 8734>>, <<85, 195, 225>>>>,   \* -> "UU+00C3U+00E1"
       <<<<8220, 216>>, <<8730, 186>>>>,   \* -> "U+221AU+00BA"
       <<<<8220, 198>>, <<8730, 250>>>>,   \* -> "U+221AU+00FA"
       <<<<8220, 170>>, <<104>>>>,   \* -> "h"
       <<<<8220, 8747>>, <<72>>>>,   \* -> "H"
       <<<<8212, 241>>, <<105>>>>,   \* -> "i"
       <<<<8211, 220>>, <<73>>>> >>

kyrgyz_map ==
    << <<<<8220, 163>>, <<8776, 227>>>>,   \* -> "U+2248U+00E3"
       <<<<8220, 162>>, <<8776, 228>>>>,   \* -> "U+2248U+00E4"
       <<<<8221, 169>>, <<8730, 8706>>>>,   \* -> "U+221AU+2202"
       <<<<8221, 174>>, <<8730, 241>>>>,   \* -> "U+221AU+00F1"
       <<<<8220, 216>>, <<8730, 186>>>>,   \* -> "U+221AU+00BA"
       <<<<8220, 198>>, <<8730, 250>>>> >>

common_cyrillic ==
    << <<<<8211, 8734>>, <<97>>>>,   \* -> "a"
       <<<<8211, 234>>, <<65>>>>,   \* -> "A"
       <<<<8211, 177>>, <<98>>>>,   \* -> "b"
       <<<<8211, 235>>, <<66>>>>,   \* -> "B"
       <<<<8211, 8804>>, <<118>>>>,   \* -> "v"
       <<<<8211, 237>>, <<86>>>>,   \* -> "V"
       <<<<8211, 8805>>, <<103>>>>,   \* -> "g"
       <<<<8211, 236>>, <<71>>>>,   \* -> "G"
       <<<<8211, 165>>, <<100>>>>,   \* -> "d"
       <<<<8211, 238>>, <<68>>>>,   \* -> "D"
       <<<<8211, 181>>, <<101>>>>,   \* -> "e"
       <<<<8211, 239>>, <<69>>>>,   \* -> "E"
       <<<<8212, 235>>, <<121, 111>>>>,   \* -> "yo"
       <<<<8211, 197>>, <<89, 111>>>>,   \* -> "Yo"
       <<<<8211, 8706>>, <<106>>>>,   \* -> "j"
       <<<<8211, 241>>, <<74>>>>,   \* -> "J"
       <<<<8211, 8721>>, <<122>>>>,   \* -> "z"
       <<<<8211, 243>>, <<90>>>>,   \* -> "Z"
       <<<<8211, 8719>>, <<105>>>>,   \* -> "i"
       <<<<8211, 242>>, <<73>>>>,   \* -> "I"
       <<<<8211, 960>>, <<121>>>>,   \* -> "y"
       <<<<8211, 244>>, <<89>>>>,   \* -> "Y"
       <<<<8211, 8747>>, <<107>>>>,   \* -> "k"
       <<<<8211, 246>>, <<75>>>>,   \* -> "K"
       <<<<8211, 170>>, <<108>>>>,   \* -> "l"
       <<<<8211, 245>>, <<76>>>>,   \* -> "L"
       <<<<8211, 186>>, <<109>>>>,   \* -> "m"
       <<<<8211, 250>>, <<77>>>>,   \* -> "M"
       <<<<8211, 937>>, <<110>>>>,   \* -> "n"
       <<<<8211, 249>>, <<78>>>>,   \* -> "N"
       <<<<8211, 230>>, <<111>>>>,   \* -> "o"
       <<<<8211, 251>>, <<79>>>>,   \* -> "O"
       <<<<8211, 248>>, <<112>>>>,   \* -> "p"
       <<<<8211, 252>>, <<80>>>>,   \* -> "P"
       <<<<8212, 196>>, <<114>>>>,   \* -> "r"
       <<<<8211, 8224>>, <<82>>>>,   \* -> "R"
       <<<<8212, 197>>, <<115>>>>,   \* -> "s"
       <<<<8211, 176>>, <<83>>>>,   \* -> "S"
       <<<<8212, 199>>, <<116>>>>,   \* -> "t"
       <<<<8211, 162>>, <<84>>>>,   \* -> "T"
       <<<<8212, 201>>, <<117>>>>,   \* -> "u"
       <<<<8211, 163>>, <<85>>>>,   \* -> "U"
       <<<<8212, 209>>, <<102>>>>,   \* -> "f"
       <<<<8211, 167>>, <<70>>>>,   \* -> "F"
       <<<<8212, 214>>, <<120>>>>,   \* -> "x"
       <<<<8211, 8226>>, <<88>>>>,   \* -> "X"
       <<<<8212, 220>>, <<116, 115>>>>,   \* -> "ts"
       <<<<8211, 182>>, <<84, 115>>>>,   \* -> "Ts"
       <<<<8212, 225>>, <<99, 104>>>>,   \* -> "ch"
       <<<<8211, 223>>, <<67, 104>>>>,   \* -> "Ch"
       <<<<8212, 224>>, <<115, 104>>>>,   \* -> "sh"
       <<<<8211, 174>>, <<83, 104>>>>,   \* -> "Sh"
       <<<<8212, 226>>, <<115, 104, 99, 104>>>>,   \* -> "shch"
       <<<<8211, 169>>, <<83, 104, 99, 104>>>>,   \* -> "Shch"
       <<<<8212, 228>>, <<>>>>,   \* -> ""
       <<<<8211, 8482>>, <<>>>>,   \* -> ""
       <<<<8212, 227>>, <<121>>>>,   \* -> "y"
       <<<<8211, 180>>, <<89>>>>,   \* -> "Y"
       <<<<8212, 229>>, <<>>>>,   \* -> ""
       <<<<8211, 168>>, <<>>>>,   \* -> ""
       <<<<8212, 231>>, <<101>>>>,   \* -> "e"
       <<<<8211, 8800>>, <<69>>>>,   \* -> "E"
       <<<<8212, 233>>, <<121, 117>>>>,   \* -> "yu"
       <<<<8211, 198>>, <<89, 117>>>>,   \* -> "Yu"
       <<<<8212, 232>>, <<121, 97>>>>,   \* -> "ya"
       <<<<8211, 216>>, <<89, 97>>>> >>

\* ---- TurkicTransliterator and the functions of latin_to_cyrillic_turkic.py ----
\* _get_latin_to_cyrillic_map: common_cyrillic updated with the map of the language
\* (no map for a language that is none of the three), then inverted; of two keys
\* with one value the later key wins
_get_latin_to_cyrillic_map(language) ==
    LET combined == common_cyrillic \o
                        (CASE language = "ba" -> bashkir_map
                           [] language = "kk" -> kazakh_map
                           [] language = "ky" -> kyrgyz_map
                           [] OTHER -> <<>>)
    IN  DictOf([i \in 1..Len(combined) |-> <<combined[i][2], combined[i][1]>>])

\* the loop of both conversions: at each position the longest key of the mapping
\* among the given lengths is replaced by its value, any other character is kept
Transliterate(mapping, s, lengths) ==
    LET Longest(i) ==
            Max({0} \cup {n \in lengths :
                             i + n - 1 <= Len(s) /\ SubSeq(s, i, i + n - 1) \in DOMAIN mapping})
    IN  Substitute(s,
            [i \in 1..Len(s) |-> IF Longest(i) = 0 THEN 0 ELSE i + Longest(i)],
            [i \in 1..Len(s) |->
                IF Longest(i) = 0 THEN <<>> ELSE mapping[SubSeq(s, i, i + Longest(i) - 1)]])

\* a conversion that falls back to Bashkir for a language that is none of the three
TurkicTransliterator_latin_to_cyrillic_default(t, language) ==
    Transliterate(
        _get_latin_to_cyrillic_map(IF language \in {"ba", "kk", "ky"} THEN language ELSE "ba"),
        t, 1..4)

\* TurkicTransliterator.latin_to_cyrillic
TurkicTransliterator_latin_to_cyrillic(t, language) ==
    IF language \notin {"ba", "kk", "ky"} THEN <<ValueError>>
    ELSE Transliterate(_get_latin_to_cyrillic_map(language), t, 1..4)

\* TurkicTransliterator.handle_edge_cases: \bye\b -> e for the three languages, a
\* vowel of the class and y -> the vowel and the two characters of the file for
\* Kazakh (both ignoring case), then ' -> the two characters of the file
handle_edge_cases(t, language) ==
    LET iotation == << Alt(TRUE, << {la_y, LA_Y}, {la_e, LA_E} >>, TRUE, << Lit(la_e) >>) >>
        vowels == {65, 69, 73, 79, 85, 97, 101, 105, 111, 117, 167, 177, 186, 209, 212,
                   241, 244, 304, 305, 8212, 8220, 8221, 8706, 8730}
        after_vowel == << Alt(FALSE, << vowels, {la_y, LA_Y} >>, FALSE,
                              << Grp(1), Lit(8211), Lit(960) >>) >>
        apostrophe == << Alt(FALSE, << {ch_APOS} >>, FALSE, << Lit(8212), Lit(229) >>) >>
        r1 == IF language \in {"ba", "kk", "ky"} THEN re_sub(iotation, t) ELSE t
        r2 == IF language = "kk" THEN re_sub(after_vowel, r1) ELSE r1
    IN  re_sub(apostrophe, r2)

\* latin_to_cyrillic(text, language, handle_edges)
latin_to_cyrillic(t, language, handle_edges) ==
    TurkicTransliterator_latin_to_cyrillic(
        IF handle_edges THEN handle_edge_cases(t, language) ELSE t, language)

\* cyrillic_to_latin(text, language)
cyrillic_to_latin(t, language) ==
    CASE language = "ba" -> Transliterate(DictOf(common_cyrillic \o bashkir_map), t, 1..2)
      [] language = "kk" -> Transliterate(DictOf(common_cyrillic \o kazakh_map), t, 1..2)
      [] language = "ky" -> Transliterate(DictOf(common_cyrillic \o kyrgyz_map), t, 1..2)
      [] OTHER -> <<ValueError>>

\* a call of one of the two functions: on the empty text, ye, Ye', ay', sh, on the
\* two characters the file has for the key of "a" and on those it has for the key
\* of "shch"; with one of the three languages or with xx, BA or the empty string
InitTransliterate ==
    /\ args \in [function : {"latin_to_cyrillic", "cyrillic_to_latin"},
                 language : {"ba", "kk", "ky", "xx", "BA", ""},
                 handle_edges : BOOLEAN]
    /\ text \in { <<>>, <<la_y, la_e>>, <<LA_Y, la_e, ch_APOS>>, <<la_a, la_y, ch_APOS>>,
                  <<la_s, la_h>>, <<8211, 8734>>, <<8212, 226>> }
    /\ pc = "transliterate"
    /\ result = <<>>
    /\ idx = 0
    /\ disk = <<>>
    /\ printed = <<>>
    /\ segments = <<>>
    /\ corrected_segments = <<>>
    /\ self = corrector
    /\ files = NoFiles
    /\ warnings = {}
    /\ calls = <<>>
    /\ aggressive = FALSE
    /\ texts = <<>>
    /\ out = <<>>

\* the call of latin_to_cyrillic returns its value or raises
CallLatinToCyrillic ==
    /\ pc = "transliterate"
    /\ args.function = "latin_to_cyrillic"
    /\ LET value == latin_to_cyrillic(text, args.language, args.handle_edges)
       IN  IF Raised(value)
           THEN pc' = "raised" /\ result' = value
           ELSE pc' = "returned" /\ result' = value
    /\ UNCHANGED <<text, aggressive, texts, out, idx, self, files, warnings, calls,
                   args, segments, corrected_segments, disk, printed>>

\* the call of cyrillic_to_latin returns its value or raises
CallCyrillicToLatin ==
    /\ pc = "transliterate"
    /\ args.function = "cyrillic_to_latin"
    /\ LET value == cyrillic_to_latin(text, args.language)
       IN  IF Raised(value)
           THEN pc' = "raised" /\ result' = value
           ELSE pc' = "returned" /\ result' = value
    /\ UNCHANGED <<text, aggressive, texts, out, idx, self, files, warnings, calls,
                   args, segments, corrected_segments, disk, printed>>

InitScripts == InitSegments \/ InitDirectory \/ InitTransliterate \/ InitAudio

NextScripts ==
    \/ CorrectSegment
    \/ ParseLines
    \/ CorrectVadSegment
    \/ SegmentsProcessed
    \/ TranscribeFile
    \/ CorrectTranscription
    \/ ProcessFile
    \/ DirectoryProcessed
    \/ CallLatinToCyrillic
    \/ CallCyrillicToLatin
    \/ ProcessAudioFile

SpecScripts == InitScripts /\ [][NextScripts]_vars

\* ---- the properties of the calls ----

\* C1: the call of correct_orthography on the input of the regression fixture
\* returns the fixture's expected string, character for character.
C1_FixtureOutput ==
    (pc = "done" /\ text = fixture_input) => result = fixture_expected

\* C2: correct_orthography is idempotent: the full pipeline applied to its own
\* output changes nothing, correct(correct(x)) = correct(x) for every input x.
C2_Idempotent ==
    pc = "done" => correct_orthography(result, aggressive) = result

\* C3: no source-only material survives: the output of correct_orthography holds no
\* character that char_map rewrites to a different character, and no
\* whitespace-delimited word that the dictionary stage replaces by a different word.
C3_NoSourceOnly ==
    pc = "done" =>
        LET words == str_split(result)
        IN  /\ \A i \in 1..Len(result) :
                <<result[i]>> \in DOMAIN char_map => char_map[<<result[i]>>] = <<result[i]>>
            /\ \A k \in 1..Len(words) : DictionaryWord(words[k]) = words[k]

\* C4: correct_orthography is total: no call raises, every call that returns returns
\* a string, and the empty string is returned for the empty string.
C4_Total ==
    /\ pc # "raised"
    /\ pc = "done" => \A i \in 1..Len(result) : result[i] \in Chars
    /\ (pc = "done" /\ text = <<>>) => result = <<>>

\* a call on text that normalizes to nothing has run every stage and returned ""
C4_Witness ==
    pc = "done" /\ text = annotation_music /\ result = <<>>

\* C5, as the specification states it: a non-empty input made only of whitespace
\* characters yields the empty string.
C5_BlankGivesEmpty ==
    (pc = "done" /\ text # <<>> /\ \A i \in 1..Len(text) : ch_isspace(text[i]))
        => result = <<>>

\* C5, as the code has it: a non-empty input made only of whitespace characters is
\* returned as it is, so the result is not the empty string ("   " gives "   ").
C5_BlankKept ==
    (pc = "done" /\ text # <<>> /\ \A i \in 1..Len(text) : ch_isspace(text[i]))
        => (result # <<>> /\ result = text)

\* the call on three spaces has returned three spaces
C5_Witness ==
    pc = "done" /\ text = <<ch_SP, ch_SP, ch_SP>> /\ result = <<ch_SP, ch_SP, ch_SP>>

\* C6: for every t with t.strip() = "" the call returns t, and no stage is applied
\* to it: the call is never at a stage, it goes from its start to its return.
C6_BlankUnchanged ==
    str_strip(text) = <<>> =>
        /\ pc \notin {"normalized", "dictionary", "characters", "grammar",
                      "proper_nouns", "sentences"}
        /\ pc = "done" => result = text

\* the call on a newline and a space has returned them
C6_Witness ==
    pc = "done" /\ text = <<ch_NL, ch_SP>> /\ result = <<ch_NL, ch_SP>>

\* C7: _apply_dictionary keeps the case of the word: for every lower-case key k with
\* value v, a token whose core is k with its first letter upper-cased becomes v with
\* its first letter upper-cased, a token whose core is k upper-cased becomes v
\* upper-cased, and a token whose core is k in another casing becomes v as stored;
\* the punctuation around the core stays.
C7_CasePreserved ==
    pc = "_apply_dictionary" =>
        \A k \in LowerKeys : \A w \in Wrappers :
            LET v == word_dictionary[k]
                token(core) == w[1] \o core \o w[2]
            IN  /\ text = token(Capitalized(k)) => result = token(Capitalized(v))
                /\ text = token(AllUpper(k)) => result = token(AllUpper(v))
                /\ (\E c \in Casings(k) \ {Capitalized(k), AllUpper(k)} : text = token(c))
                       => result = token(v)

\* _apply_dictionary has turned the upper-cased key БҰЛ into the upper-cased БЫЛ
C7_Witness ==
    /\ pc = "_apply_dictionary"
    /\ text = AllUpper(<<c_b, c_uu, c_l>>)
    /\ result = AllUpper(<<c_b, c_y, c_l>>)

\* C8: batch_correct returns a list as long as texts whose i-th element is
\* correct_orthography(texts[i]), whatever the other texts and their order.
C8_BatchOrder ==
    /\ pc = "batch" => (idx = Len(out) /\ idx <= Len(texts))
    /\ pc \in {"batch", "batch_done"} =>
           \A i \in 1..Len(out) : out[i] = correct_orthography(texts[i], aggressive)
    /\ pc = "batch_done" => Len(out) = Len(texts)

\* batch_correct has returned the three results of [ні, "", н.н] in their order
C8_Witness ==
    /\ pc = "batch_done"
    /\ texts = << <<c_n, c_ii>>, <<>>, <<c_n, ch_DOT, c_n>> >>
    /\ out = << <<C_N, c_e>>, <<>>, <<C_N, ch_DOT, ch_SP, C_N>> >>

C11_StopLetterByContext ==
    pc = "_apply_char_replacements" =>
        /\ Len(result) = Len(text)
        /\ \A i \in 1..Len(text) :
               text[i] = c_q =>
                   /\ (i = 1 \/ ~ch_isword(text[i - 1]) \/ text[i - 1] \in Consonants)
                          => result[i] = c_bq
                   /\ (i > 1 /\ i < Len(text)
                            /\ text[i - 1] \in Vowels /\ text[i + 1] \in Vowels)
                          => result[i] = c_h

\* C12: after _apply_grammar_corrections every word that ends in a documented
\* ending carries the variant that agrees with the last vowel of its stem: the back
\* variant after a back vowel, the front variant after a front vowel, also when
\* consonants stand between that vowel and the ending.
C12_HarmonyByStemVowel ==
    pc = "_apply_grammar_corrections" =>
        \A k \in 1..Len(harmony_endings) : \A i \in 1..Len(result) :
            LET front == harmony_endings[k][1]
                back == harmony_endings[k][2]
                EndsWord(e) ==
                    /\ i + Len(e) - 1 <= Len(result)
                    /\ SubSeq(result, i, i + Len(e) - 1) = e
                    /\ AtBoundary(result, i + Len(e) - 1)
                StemVowels ==
                    {m \in 1..(i - 1) :
                        /\ result[m] \in BackVowels \cup FrontVowels
                        /\ \A j \in m..(i - 1) : ch_isword(result[j])}
            IN  StemVowels # {} =>
                    /\ EndsWord(front) => result[Max(StemVowels)] \in FrontVowels
                    /\ EndsWord(back) => result[Max(StemVowels)] \in BackVowels

\* C13: proper nouns are capitalized through the pipeline: an input of
\* correct_orthography that holds a key of proper_nouns as a whole word, in its
\* lower-case or its title-case form, yields an output in which that word is the
\* fixed capitalized form of the map.
C13_ProperNounThroughPipeline ==
    pc = "done" =>
        \A k \in DOMAIN proper_nouns : \A w \in {k, Capitalized(k)} :
            text = <<c_n, ch_SP>> \o w => result = <<C_N, ch_SP>> \o proper_nouns[k]

\* C14: the words of the preserve sets are exempt: correct_orthography leaves the
\* letter қ of a word of the қ set, and the letter і of a word of the і set,
\* unrewritten (whatever its case).
C14_PreserveWordsExempt ==
    pc = "done" =>
        /\ text \in default_preserve_q_words =>
               /\ Len(result) = Len(text)
               /\ \A i \in 1..Len(text) :
                      ch_lower(text[i]) = c_q => ch_lower(result[i]) = c_q
        /\ text \in default_preserve_i_words =>
               /\ Len(result) = Len(text)
               /\ \A i \in 1..Len(text) :
                      ch_lower(text[i]) = c_ii => ch_lower(result[i]) = c_ii

\* C15: a failed read of a word-list file falls back to the defaults: whenever the
\* read of a file fails, at open or after some lines were read, the construction
\* ends, a warning is reported for the file, and the preserve set of the file is
\* the built-in default set (the empty set for the е set, which has no default):
\* nothing read before the failure is kept.
C15_LoadFailureFallsBack ==
    pc = "constructed" =>
        LET Failed(name) == files[name].exists /\ files[name].fails
        IN  /\ \A name \in FileNames : Failed(name) => name \in warnings
            /\ Failed("preserve_q_words.txt")
                   => self.preserve_q_words = default_preserve_q_words
            /\ Failed("preserve_i_words.txt")
                   => self.preserve_i_words = default_preserve_i_words
            /\ Failed("preserve_e_words.txt") => self.preserve_e_words = {}

\* C16: when none of the three word-list files exists, each of the three preserve
\* sets, for қ, і and е, is a non-empty built-in default set after construction.
C16_DefaultsWhenAbsent ==
    (pc = "constructed" /\ files = NoFiles) =>
        /\ self.preserve_q_words = default_preserve_q_words
        /\ self.preserve_i_words = default_preserve_i_words
        /\ self.preserve_q_words # {}
        /\ self.preserve_i_words # {}
        /\ self.preserve_e_words # {}

\* C17: concurrent use is safe: no step of a call modifies a table or a preserve
\* set of the corrector, and under every interleaving of the concurrent calls on
\* one object each call returns what correct_orthography returns for its text alone.
C17_ConcurrentCallsIndependent ==
    /\ self = corrector
    /\ \A t \in DOMAIN calls :
           /\ calls[t].pc # "raised"
           /\ calls[t].pc = "done"
                  => calls[t].result = correct_orthography(calls[t].text, aggressive)

\* two interleaved calls on different texts have both returned, each its own result
C17_Witness ==
    /\ pc = "threads"
    /\ calls[1] = [text |-> <<c_n, c_ii>>, pc |-> "done", result |-> <<C_N, c_e>>]
    /\ calls[2] = [text |-> <<c_n, ch_DOT, c_n>>, pc |-> "done",
                   result |-> <<C_N, ch_DOT, ch_SP, C_N>>]

\* C18, as the specification states it: the corrected list has the length and the
\* order of the segments, every corrected segment keeps the id, start and end (or
\* the timestamp) and the original text of its segment unchanged, and its corrected
\* text is correct_orthography of the text of its segment.
C18_SegmentIdentity ==
    pc \in {"transcribe_with_correction", "clean_vad_transcript", "segments_done"} =>
        /\ Len(corrected_segments) = idx
        /\ idx <= Len(segments)
        /\ pc = "segments_done" => Len(corrected_segments) = Len(segments)
        /\ \A i \in 1..Len(corrected_segments) :
               LET seg == segments[i]
                   corrected_seg == corrected_segments[i]
               IN  IF args.function = "transcribe_with_correction"
                   THEN /\ corrected_seg.id = seg.id
                        /\ corrected_seg.start = seg.start
                        /\ corrected_seg.end = seg.end
                        /\ corrected_seg.original_text = seg.text
                        /\ corrected_seg.corrected_text
                               = correct_orthography(seg.text, args.aggressive_correction)
                   ELSE /\ corrected_seg.timestamp = seg.timestamp
                        /\ args.apply_correction =>
                               /\ corrected_seg.original_text = seg.text
                               /\ corrected_seg.corrected_text
                                      = correct_orthography(seg.text, args.aggressive)
                        /\ ~args.apply_correction => corrected_seg.text = seg.text

\* C18, as the code has it: the corrected list has the length and the order of the
\* segments and every corrected segment keeps the id, start and end (or the
\* timestamp) of its segment; its original text is the text of its segment with the
\* surrounding whitespace stripped, and its corrected text is correct_orthography
\* of that stripped text, whatever the other segments are.
C18_SegmentIdentityStripped ==
    pc \in {"transcribe_with_correction", "clean_vad_transcript", "segments_done"} =>
        /\ Len(corrected_segments) = idx
        /\ idx <= Len(segments)
        /\ pc = "segments_done" => Len(corrected_segments) = Len(segments)
        /\ \A i \in 1..Len(corrected_segments) :
               LET seg == segments[i]
                   corrected_seg == corrected_segments[i]
               IN  IF args.function = "transcribe_with_correction"
                   THEN /\ corrected_seg.id = seg.id
                        /\ corrected_seg.start = seg.start
                        /\ corrected_seg.end = seg.end
                        /\ corrected_seg.original_text = str_strip(seg.text)
                        /\ corrected_seg.corrected_text
                               = correct_orthography(str_strip(seg.text),
                                                     args.aggressive_correction)
                   ELSE /\ corrected_seg.timestamp = seg.timestamp
                        /\ args.apply_correction =>
                               /\ corrected_seg.original_text = str_strip(seg.text)
                               /\ corrected_seg.corrected_text
                                      = correct_orthography(str_strip(seg.text),
                                                            args.aggressive)
                        /\ ~args.apply_correction => corrected_seg.text = seg.text

\* transcribe_with_correction has corrected the segments " н" (id 0) and "н.н " (id 7)
C18_Witness ==
    /\ pc = "segments_done"
    /\ args.function = "transcribe_with_correction"
    /\ corrected_segments =
           << [id |-> 0, start |-> 0, end |-> 2, original_text |-> <<c_n>>,
               corrected_text |-> <<C_N>>],
              [id |-> 7, start |-> 8, end |-> 9,
               original_text |-> <<c_n, ch_DOT, c_n>>,
               corrected_text |-> <<C_N, ch_DOT, ch_SP, C_N>>] >>

\* C19: batch failure isolation: in the loop of transcribe_directory, the correction
\* loop of main and the directory loop of quick_correct.main, an exception raised
\* while one file is processed is reported and does not end the loop: every file
\* consumed has printed one message, and when the loop has ended every failed file
\* has its error message and every other file, also one after a failed file, has
\* its output on the disk.
C19_FailureIsolated ==
    args.function \in {"transcribe_directory", "main", "quick_correct"} =>
        LET Reported(file) ==
                \E m \in 1..Len(printed) : printed[m] = [kind |-> "error", file |-> file]
            Saved(file, content) == file \in DOMAIN disk /\ disk[file] = content
        IN  /\ pc # "raised"
            /\ pc \in {"transcribe_directory", "quick_correct"} => Len(printed) = idx
            /\ pc = "main" => Len(printed) = Len(args.files) + idx
            /\ pc = "directory_done" =>
                   \A k \in 1..Len(args.files) :
                       LET f == args.files[k]
                       IN  IF args.function = "quick_correct"
                           THEN IF f.fails = "process_file"
                                THEN Reported(<<k, ".txt">>)
                                ELSE Saved(<<k, "_CORRECTED_ONELINE.txt">>,
                                           process_file(f.text))
                           ELSE /\ IF f.fails = "transcribe"
                                   THEN Reported(<<k, ".mp3">>)
                                   ELSE Saved(<<k, "_transcribed.txt">>, f.text)
                                /\ args.function = "main" =>
                                       /\ f.fails = "correct"
                                              => Reported(<<k, "_transcribed.txt">>)
                                       /\ f.fails = "none"
                                              => Saved(<<k, "_corrected.txt">>,
                                                       correct_orthography(f.text,
                                                                           args.aggressive))

\* main has ended on three files: the transcription of the first failed, the
\* correction of the second failed, and the third has its corrected text on the disk
C19_Witness ==
    /\ pc = "directory_done"
    /\ args.function = "main"
    /\ Len(args.files) = 3
    /\ args.files[1].fails = "transcribe"
    /\ args.files[2].fails = "correct"
    /\ args.files[3] = [text |-> <<c_n, c_ii>>, fails |-> "none"]
    /\ printed[1] = [kind |-> "error", file |-> <<1, ".mp3">>]
    /\ <<3, "_corrected.txt">> \in DOMAIN disk
    /\ disk[<<3, "_corrected.txt">>] = <<C_N, c_e>>

\* C20: an invalid language code is an explicit failure: for every text, a call of
\* latin_to_cyrillic or cyrillic_to_latin with a language code outside {ba, kk, ky}
\* raises ValueError and returns no converted text; no default language is used.
C20_InvalidLanguageRaises ==
    (/\ args.function \in {"latin_to_cyrillic", "cyrillic_to_latin"}
     /\ args.language \notin {"ba", "kk", "ky"}) =>
        /\ pc # "returned"
        /\ pc = "raised" => result = <<ValueError>>

\* latin_to_cyrillic("Ye'", "xx") with edge-case handling has raised ValueError
C20_Witness ==
    /\ pc = "raised"
    /\ args = [function |-> "latin_to_cyrillic", language |-> "xx", handle_edges |-> TRUE]
    /\ text = <<LA_Y, la_e, ch_APOS>>
    /\ result = <<ValueError>>


\* C21: in the output of _apply_final_formatting no punctuation character of
\* , . : ; ! ? stands right after a whitespace character, and each one that is not
\* the last character of the text is followed by exactly one space, also when the
\* input holds two or more adjacent punctuation characters.
C21_PunctuationSpacing ==
    pc = "_apply_final_formatting" =>
        \A i \in 1..Len(result) :
            result[i] \in ClausePunct =>
                /\ i > 1 => ~ch_isspace(result[i - 1])
                /\ i < Len(result) =>
                       /\ result[i + 1] = ch_SP
                       /\ i + 2 <= Len(result) => ~ch_isspace(result[i + 2])

\* C22: _apply_final_formatting reduces every run of two or more adjacent
\* characters of . ! ? in its input to a single terminal punctuation character: the
\* output holds exactly one character of . ! ? for each maximal run of them in the
\* input ("!!!" gives "!").
C22_RepeatedTerminalCollapsed ==
    pc = "_apply_final_formatting" =>
        LET runs == {i \in 1..Len(text) :
                        /\ text[i] \in Terminal
                        /\ (i = 1 \/ text[i - 1] \notin Terminal)}
            kept == {j \in 1..Len(result) : result[j] \in Terminal}
        IN  Cardinality(kept) = Cardinality(runs)

\* C23: the loop of _apply_char_replacements over the entries of char_map, each
\* replace working on the result of the one before, gives the same string as
\* replacing every character of the original input once by its image under
\* char_map: no character that a replace has written is replaced again.
C23_SequentialIsSimultaneous ==
    pc = "_apply_char_replacements" =>
        ReplaceEach(char_map_items, text, 1)
            = [i \in 1..Len(text) |->
                  IF <<text[i]>> \in DOMAIN char_map
                  THEN char_map[<<text[i]>>][1] ELSE text[i]]

\* a call on a text with ү, whose image ө is itself a later key of the map
C23_Witness ==
    /\ pc = "_apply_char_replacements"
    /\ \E i \in 1..Len(text) : text[i] = c_ue /\ result[i] = c_oe

\* C24: the suffix rules of grammar_patterns do not cascade in
\* _apply_grammar_corrections: where rule k rewrites a word ending, the text that
\* leaves the last rule of the list still holds the replacement of rule k at that
\* place, so no later rule of the list has rewritten the ending again.
C24_SuffixRulesDoNotCascade ==
    pc = "_apply_grammar_corrections" =>
        LET patterns == [k \in 1..Len(grammar_patterns) |->
                            Ending(grammar_patterns[k][1], grammar_patterns[k][2])]
            Kept(before, after, k) ==
                \A i \in 1..Len(before) :
                    LET last == i + Len(grammar_patterns[k][1]) - 1
                    IN  (/\ last <= Len(before)
                         /\ SubSeq(before, i, last) = grammar_patterns[k][1]
                         /\ AtBoundary(before, last))
                            => SubSeq(after, i, last) = grammar_patterns[k][2]
        IN  \A k \in 1..Len(grammar_patterns) :
                Kept(SubEach(SubSeq(patterns, 1, k - 1), text, 1),
                     SubEach(patterns, text, 1), k)

\* C25: the output of _normalize_text holds no two consecutive whitespace
\* characters and neither starts nor ends with a whitespace character, also when
\* the input holds an annotation in brackets or parentheses between two spaces.
C25_NormalizeSingleSpacing ==
    pc = "_normalize_text" =>
        /\ \A i \in 1..(Len(result) - 1) :
               ~(ch_isspace(result[i]) /\ ch_isspace(result[i + 1]))
        /\ result # <<>> =>
               ~ch_isspace(result[1]) /\ ~ch_isspace(result[Len(result)])

\* C26: clean_transcription_artifacts keeps of every line that holds one or more
\* "|" only the text after the last "|", stripped: its output holds no "|", and for
\* a text of one line with a "|" the output is that text after the last "|" (or
\* nothing, when the line is dropped).
C26_TextAfterLastPipe ==
    (pc = "quick_correct" /\ idx > 0 /\ <<idx, "_CORRECTED_ONELINE.txt">> \in DOMAIN disk) =>
        LET t == args.files[idx].text
            bars == {i \in 1..Len(t) : t[i] = ch_PIPE}
            cleaned == clean_transcription_artifacts(t)
        IN  /\ \A i \in 1..Len(cleaned) : cleaned[i] # ch_PIPE
            /\ (bars # {} /\ \A i \in 1..Len(t) : t[i] \notin 10..13)
                   => cleaned \in {<<>>, str_strip(SubSeq(t, Max(bars) + 1, Len(t)))}

\* C27: the replacements of the dictionary reach the output intact: for every
\* entry k -> v of word_dictionary, correct_orthography(k) is v with its first
\* letter upper-cased and nothing else changed (the stages after the dictionary
\* leave every value as it is).
C27_DictionaryValueReachesOutput ==
    (pc = "done" /\ text \in DOMAIN word_dictionary) =>
        result = [i \in 1..Len(word_dictionary[text]) |->
                     IF i = 1 THEN ch_upper(word_dictionary[text][i])
                     ELSE word_dictionary[text][i]]

\* C28: in the output of _fix_vowel_harmony no word ends in a back vowel (а о у ы)
\* with a front ending (гә кә ҙә тә нән ҙән тән) right after it, and no word ends in
\* a front vowel (ә ө ү и е) with a back ending (га ка ҙа та нан ҙан тан) right
\* after it.
C28_LocalHarmony ==
    pc = "_fix_vowel_harmony" =>
        \A k \in 1..Len(harmony_endings) : \A i \in 1..Len(result) :
            LET EndsWordAfter(e) ==
                    /\ i + Len(e) <= Len(result)
                    /\ SubSeq(result, i + 1, i + Len(e)) = e
                    /\ AtBoundary(result, i + Len(e))
            IN  /\ result[i] \in BackVowels => ~EndsWordAfter(harmony_endings[k][1])
                /\ result[i] \in FrontVowels => ~EndsWordAfter(harmony_endings[k][2])

\* calls on анән and on әнан have returned анан and әнән
C28_Witness ==
    /\ pc = "_fix_vowel_harmony"
    /\ \/ text = <<c_a, c_n, c_ae, c_n>> /\ result = <<c_a, c_n, c_a, c_n>>
       \/ text = <<c_ae, c_n, c_a, c_n>> /\ result = <<c_ae, c_n, c_ae, c_n>>

C30_RawTranscriptionKept ==
    (pc = "audio_done" /\ Len(printed) = 2) =>
        /\ printed[1].file # printed[2].file
        /\ disk[printed[1].file] = text
        /\ disk[printed[2].file] = result
====
